---- MODULE Spec2Model ----
(***************************************************************************)
(* A byte-level model of the m4a-stems container engine: the atom parser,  *)
(* the metadata writers of src/src/atoms.js and the track extractor of     *)
(* src/src/extractor.js.  A file is a sequence of bytes (0..255); offsets  *)
(* are 0-based as in the source, and Slice(b, from, to) is Buffer.slice.   *)
(***************************************************************************)
EXTENDS Integers, Sequences, FiniteSets, TLC

VARIABLES file, orig, prev, lastOp, lastKeys, written, threw, nWrites,
          src, out, xTrack, xDone, xErr, res, xArg

vars == <<file, orig, prev, lastOp, lastKeys, written, threw, nWrites,
          src, out, xTrack, xDone, xErr, res, xArg>>

writerVars == <<file, orig, prev, lastOp, lastKeys, written, threw, nWrites>>
extractVars == <<src, out, xTrack, xDone, xErr, res, xArg>>
writerVarsButOp == <<file, orig, prev, lastKeys, written, threw, nWrites>>

(***************************************************************************)
(* Bounds of the model.                                                    *)
(***************************************************************************)
MaxWrites == 2
MaxSamples == 3
MaxTracks == 2
MaxDepth == 6
MaxPitch == 2
MaxChunks == 3
MaxEntries == 2

(***************************************************************************)
(* Bytes, integers and buffers.                                            *)
(***************************************************************************)
Min(S) == CHOOSE x \in S : \A y \in S : x <= y
Max(S) == CHOOSE x \in S : \A y \in S : x >= y

Clamp(i, n) == IF i < 0 THEN 0 ELSE IF i > n THEN n ELSE i

\* Buffer.slice(from, to): bytes from..to-1, both ends clamped to the buffer.
Slice(b, from, to) == SubSeq(b, Clamp(from, Len(b)) + 1, Clamp(to, Len(b)))

\* Buffer.slice(from): to the end of the buffer.
SliceFrom(b, from) == Slice(b, from, Len(b))

\* Buffer.alloc(n): n zero bytes.
Zeros(n) == [i \in 1..n |-> 0]

\* writeUInt16BE / writeUInt32BE of a value, as the bytes written.
U16(v) == <<(v \div 256) % 256, v % 256>>
U32(v) == <<(v \div 16777216) % 256, (v \div 65536) % 256, (v \div 256) % 256, v % 256>>

\* writeBigUInt64BE(BigInt(v)) for a value below 2^32.
U64(v) == <<0, 0, 0, 0>> \o U32(v)

\* writeInt8: two's complement of a value in -128..127.
I8(v) == IF v < 0 THEN v + 256 ELSE v

\* A value of 2^31 or more lies beyond every file of the model and is read
\* as HugeOffset.
HugeOffset == 2147483647

\* buffer.readUInt32BE(pos)
RdU32(b, pos) ==
  IF b[pos + 1] >= 128 THEN HugeOffset
  ELSE b[pos + 1] * 16777216 + b[pos + 2] * 65536 + b[pos + 3] * 256 + b[pos + 4]

\* Number(buffer.readBigUInt64BE(pos)); an offset whose high word is not zero
\* is read as HugeOffset.
RdU64(b, pos) == IF RdU32(b, pos) = 0 THEN RdU32(b, pos + 4) ELSE HugeOffset

\* buffer.writeUInt32BE(v, pos) on a buffer, in place.
WrU32(b, pos, v) ==
  [i \in 1..Len(b) |-> IF i > pos /\ i <= pos + 4 THEN U32(v)[i - pos] ELSE b[i]]

WrU64(b, pos, v) ==
  [i \in 1..Len(b) |-> IF i > pos /\ i <= pos + 8 THEN U64(v)[i - pos] ELSE b[i]]

\* Buffer.concat([before, mid, after]) for a splice at [from, to) of b.
Splice(b, from, to, mid) == Slice(b, 0, from) \o mid \o SliceFrom(b, to)

RECURSIVE Digits(_)
\* String(n) for a natural number: its decimal digits in ASCII.
Digits(n) == IF n < 10 THEN <<48 + n>> ELSE Digits(n \div 10) \o <<48 + (n % 10)>>

(***************************************************************************)
(* Four-character atom types and the strings of the source, as bytes.      *)
(* A type is written with 'latin1', so the copyright sign is byte 0xA9.    *)
(***************************************************************************)
T_ftyp == <<102, 116, 121, 112>>
T_moov == <<109, 111, 111, 118>>
T_mdat == <<109, 100, 97, 116>>
T_mvhd == <<109, 118, 104, 100>>
T_trak == <<116, 114, 97, 107>>
T_tkhd == <<116, 107, 104, 100>>
T_mdia == <<109, 100, 105, 97>>
T_mdhd == <<109, 100, 104, 100>>
T_minf == <<109, 105, 110, 102>>
T_smhd == <<115, 109, 104, 100>>
T_dinf == <<100, 105, 110, 102>>
T_dref == <<100, 114, 101, 102>>
T_stbl == <<115, 116, 98, 108>>
T_stsd == <<115, 116, 115, 100>>
T_stts == <<115, 116, 116, 115>>
T_stsc == <<115, 116, 115, 99>>
T_stsz == <<115, 116, 115, 122>>
T_stco == <<115, 116, 99, 111>>
T_co64 == <<99, 111, 54, 52>>
T_udta == <<117, 100, 116, 97>>
T_meta == <<109, 101, 116, 97>>
T_hdlr == <<104, 100, 108, 114>>
T_ilst == <<105, 108, 115, 116>>
T_stem == <<115, 116, 101, 109>>
T_free == <<102, 114, 101, 101>>
T_freeform == <<45, 45, 45, 45>>
T_edts == <<101, 100, 116, 115>>
T_mean == <<109, 101, 97, 110>>
T_name == <<110, 97, 109, 101>>
T_data == <<100, 97, 116, 97>>
T_nam == <<169, 110, 97, 109>>
T_ART == <<169, 65, 82, 84>>
T_alb == <<169, 97, 108, 98>>
T_day == <<169, 100, 97, 121>>
T_gen == <<169, 103, 101, 110>>
T_too == <<169, 116, 111, 111>>
T_tmpo == <<116, 109, 112, 111>>
T_trkn == <<116, 114, 107, 110>>

S_com_stems == <<99, 111, 109, 46, 115, 116, 101, 109, 115>>
S_com_apple_iTunes == <<99, 111, 109, 46, 97, 112, 112, 108, 101, 46, 105, 84, 117, 110, 101, 115>>
S_kara == <<107, 97, 114, 97>>
S_vpch == <<118, 112, 99, 104>>
S_kons == <<107, 111, 110, 115>>
S_initialkey == <<105, 110, 105, 116, 105, 97, 108, 107, 101, 121>>

(***************************************************************************)
(* Atom construction (the codec layer).                                    *)
(***************************************************************************)
createAtom(type, data) == U32(8 + Len(data)) \o type \o data

\* A 'data' sub-atom: type code, locale 0, payload.
dataAtom(typeCode, payload) == createAtom(T_data, U32(typeCode) \o U32(0) \o payload)

\* mean / name sub-atom: version/flags 0, then the string.
meanAtom(namespace) == createAtom(T_mean, U32(0) \o namespace)
nameAtom(name) == createAtom(T_name, U32(0) \o name)

\* createKaraAtom(karaJson): ----:com.stems:kara with a UTF-8 text data atom.
createKaraAtom(karaJson) ==
  createAtom(T_freeform, meanAtom(S_com_stems) \o nameAtom(S_kara) \o dataAtom(1, karaJson))

\* createBinaryFreeformAtom(namespace, name, binaryData): data type 0.
createBinaryFreeformAtom(namespace, name, binaryData) ==
  createAtom(T_freeform, meanAtom(namespace) \o nameAtom(name) \o dataAtom(0, binaryData))

\* The hdlr atom both writers emit for a new meta: handler 'mdir', reserved 'appl'.
hdlrData ==
  <<0, 0, 0, 0,  0, 0, 0, 0,  109, 100, 105, 114,  97, 112, 112, 108,
    0, 0, 0, 0,  0, 0, 0, 0,  0>>
metaHdlr == createAtom(T_hdlr, hdlrData)

\* createMetaIlstKaraStructure(karaAtomData): version/flags, hdlr, ilst.
createMetaIlstKaraStructure(karaAtomData) ==
  U32(0) \o metaHdlr \o createAtom(T_ilst, karaAtomData)

(***************************************************************************)
(* parseMP4Atoms(buffer, offset, maxLength).  A missing or zero maxLength  *)
(* is falsy in the source, and the window then runs to the buffer's end.   *)
(***************************************************************************)
Null == 0

NoAtom == [type |-> <<>>, offset |-> -1, size |-> -1, dataOffset |-> -1]

RECURSIVE parseMP4AtomsLoop(_, _, _, _)
parseMP4AtomsLoop(buffer, pos, endOffset, atoms) ==
  IF ~(pos < endOffset - 8) THEN atoms
  ELSE LET size == RdU32(buffer, pos)
       IN IF size = 0 \/ size > Len(buffer) - pos THEN atoms
          ELSE parseMP4AtomsLoop(buffer, pos + size, endOffset,
                 Append(atoms, [type |-> Slice(buffer, pos + 4, pos + 8),
                                offset |-> pos, size |-> size, dataOffset |-> pos + 8]))

parseMP4Atoms(buffer, offset, maxLength) ==
  LET endOffset == IF maxLength # Null THEN offset + maxLength ELSE Len(buffer)
  IN parseMP4AtomsLoop(buffer, offset, endOffset, <<>>)

\* atoms.find(a => a.type === type), NoAtom for undefined.
FindType(atoms, type) ==
  LET idx == {i \in 1..Len(atoms) : atoms[i].type = type}
  IN IF idx = {} THEN NoAtom ELSE atoms[Min(idx)]

(***************************************************************************)
(* dumpAtomTree(filePath, maxDepth): parseAtomsRecursive over the whole    *)
(* file.  An atom is [type, size, offset], with a children field when the  *)
(* source attaches one.                                                    *)
(***************************************************************************)
containerAtoms ==
  {T_moov, T_trak, T_mdia, T_minf, T_stbl, T_udta, T_meta, T_ilst, T_edts, T_freeform}

attachesAtAnyDepth(type, depth, maxDepth) == type \in containerAtoms

\* containerAtoms.includes(type) && depth < maxDepth
attachesChildren(type, depth, maxDepth) == type \in containerAtoms /\ depth < maxDepth

\* meta has 4 bytes of version/flags before its children.
childOffsetOf(type, pos) == IF type = T_meta THEN pos + 12 ELSE pos + 8

RECURSIVE parseAtomsRecursive(_, _, _, _, _, _)
dumpAtom(buf, pos, size, type, depth, maxDepth) ==
  IF attachesChildren(type, depth, maxDepth) /\ childOffsetOf(type, pos) < pos + size
  THEN [type |-> type, size |-> size, offset |-> pos,
        children |-> parseAtomsRecursive(buf, childOffsetOf(type, pos), pos + size,
                                         depth + 1, maxDepth, <<>>)]
  ELSE [type |-> type, size |-> size, offset |-> pos]

parseAtomsRecursive(buf, pos, endOffset, depth, maxDepth, atoms) ==
  IF ~(pos < endOffset - 8) THEN atoms
  ELSE IF RdU32(buf, pos) = 0 \/ RdU32(buf, pos) < 8 \/ pos + RdU32(buf, pos) > Len(buf)
  THEN atoms
  ELSE parseAtomsRecursive(buf, pos + RdU32(buf, pos), endOffset, depth, maxDepth,
         Append(atoms, dumpAtom(buf, pos, RdU32(buf, pos), Slice(buf, pos + 4, pos + 8),
                                depth, maxDepth)))

dumpAtomTree(buffer, maxDepth) ==
  parseAtomsRecursive(buffer, 0, Len(buffer), 0, maxDepth, <<>>)

(***************************************************************************)
(* The chunk-offset rewriter.  updateChunkOffsets (kara path) and          *)
(* updateChunkOffsetsForStem hold the same searchAtoms closure.  An        *)
(* exception inside the try block (a read past the buffer, a write of a    *)
(* value below 0 or above 2^32 - 1 into a 32-bit entry) is caught and the  *)
(* scan resumes 8 bytes further.                                           *)
(***************************************************************************)
RdEntry(buffer, offsetPos, width) ==
  IF width = 4 THEN RdU32(buffer, offsetPos) ELSE RdU64(buffer, offsetPos)

WrEntry(buffer, offsetPos, width, v) ==
  IF width = 4 THEN WrU32(buffer, offsetPos, v) ELSE WrU64(buffer, offsetPos, v)

\* The offset an entry at or past the threshold is rewritten to.
shiftedOffset(chunkOffset, sizeDelta) == chunkOffset + sizeDelta

\* Whether an entry is rewritten: it points at or past the original moov end.
entryShifts(chunkOffset, shiftThreshold) == chunkOffset >= shiftThreshold

\* A 32-bit entry as its two 16-bit halves, so that offsets up to 2^32 - 1 and
\* their sums with a delta stay exact.
entryHi(buffer, offsetPos) == buffer[offsetPos + 1] * 256 + buffer[offsetPos + 2]
entryLo(buffer, offsetPos) == buffer[offsetPos + 3] * 256 + buffer[offsetPos + 4]

\* chunkOffset >= shiftThreshold for a 32-bit entry.
entryShifts32(hi, lo, shiftThreshold) ==
  hi > shiftThreshold \div 65536
  \/ (hi = shiftThreshold \div 65536 /\ lo >= shiftThreshold % 65536)

\* The halves of chunkOffset + sizeDelta.
shiftedHi(hi, lo, sizeDelta) == hi + (lo + sizeDelta) \div 65536
shiftedLo(lo, sizeDelta) == (lo + sizeDelta) % 65536

\* writeUInt32BE(newOffset, offsetPos) throws ERR_OUT_OF_RANGE for a value
\* below 0 or above 2^32 - 1.
outOfRangeU32(newHi) == newHi < 0 \/ newHi > 65535

WrHalves(buffer, offsetPos, hi, lo) ==
  [i \in 1..Len(buffer) |->
     IF i > offsetPos /\ i <= offsetPos + 4
     THEN <<(hi \div 256) % 256, hi % 256, lo \div 256, lo % 256>>[i - offsetPos]
     ELSE buffer[i]]

RECURSIVE updateEntries(_, _, _, _, _, _, _)
\* One stco entry: left alone below the threshold, else rewritten, unless the
\* write throws.
updateEntry32(buffer, pos, i, entryCount, sizeDelta, shiftThreshold, offsetPos) ==
  IF ~entryShifts32(entryHi(buffer, offsetPos), entryLo(buffer, offsetPos), shiftThreshold)
  THEN updateEntries(buffer, pos, i + 1, entryCount, 4, sizeDelta, shiftThreshold)
  ELSE IF outOfRangeU32(shiftedHi(entryHi(buffer, offsetPos), entryLo(buffer, offsetPos),
                                  sizeDelta))
  THEN [buf |-> buffer, ok |-> FALSE]
  ELSE updateEntries(
         WrHalves(buffer, offsetPos,
                  shiftedHi(entryHi(buffer, offsetPos), entryLo(buffer, offsetPos), sizeDelta),
                  shiftedLo(entryLo(buffer, offsetPos), sizeDelta)),
         pos, i + 1, entryCount, 4, sizeDelta, shiftThreshold)

\* The for loop over the entries of one stco (width 4) or co64 (width 8).
updateEntries(buffer, pos, i, entryCount, width, sizeDelta, shiftThreshold) ==
  IF ~(i < entryCount) THEN [buf |-> buffer, ok |-> TRUE]
  ELSE LET offsetPos == pos + 16 + i * width
       IN IF offsetPos + width > Len(buffer) THEN [buf |-> buffer, ok |-> FALSE]
          ELSE IF width = 4
          THEN updateEntry32(buffer, pos, i, entryCount, sizeDelta, shiftThreshold, offsetPos)
          ELSE LET chunkOffset == RdEntry(buffer, offsetPos, width)
                   newOffset == shiftedOffset(chunkOffset, sizeDelta)
               IN IF ~entryShifts(chunkOffset, shiftThreshold)
                  THEN updateEntries(buffer, pos, i + 1, entryCount, width,
                                     sizeDelta, shiftThreshold)
                  ELSE IF newOffset < 0 THEN [buf |-> buffer, ok |-> FALSE]
                  ELSE updateEntries(WrEntry(buffer, offsetPos, width, newOffset),
                                     pos, i + 1, entryCount, width, sizeDelta,
                                     shiftThreshold)

searchContainers == {T_trak, T_mdia, T_minf, T_stbl, T_moov}

RECURSIVE searchAtoms(_, _, _, _, _)
\* searchAtoms(buffer, start, end) with the loop position as second argument.
searchAtoms(buffer, pos, end, sizeDelta, shiftThreshold) ==
  IF ~(pos < end - 8 /\ pos < Len(buffer) - 8) THEN buffer
  ELSE LET size == RdU32(buffer, pos)
           atype == Slice(buffer, pos + 4, pos + 8)
       IN IF size < 8 \/ size > end - pos
          THEN searchAtoms(buffer, pos + 8, end, sizeDelta, shiftThreshold)
          ELSE IF atype = T_stco \/ atype = T_co64
          THEN IF pos + 16 > Len(buffer)
               THEN searchAtoms(buffer, pos + 8, end, sizeDelta, shiftThreshold)
               ELSE LET r == updateEntries(buffer, pos, 0, RdU32(buffer, pos + 12),
                                           IF atype = T_stco THEN 4 ELSE 8,
                                           sizeDelta, shiftThreshold)
                    IN searchAtoms(r.buf, IF r.ok THEN pos + size ELSE pos + 8, end,
                                   sizeDelta, shiftThreshold)
          ELSE IF atype \in searchContainers
          THEN searchAtoms(searchAtoms(buffer, pos + 8, pos + size, sizeDelta,
                                       shiftThreshold),
                           pos + size, end, sizeDelta, shiftThreshold)
          ELSE searchAtoms(buffer, pos + size, end, sizeDelta, shiftThreshold)

updateChunkOffsets(moovBuffer, sizeDelta, shiftThreshold) ==
  searchAtoms(moovBuffer, 0, Len(moovBuffer), sizeDelta, shiftThreshold)

updateChunkOffsetsForStem(moovBuffer, offsetDelta, shiftThreshold) ==
  searchAtoms(moovBuffer, 0, Len(moovBuffer), offsetDelta, shiftThreshold)

\* moovBuffer = fileBuffer.slice(moovOffset, moovOffset + newMoovSize) is a view of
\* fileBuffer: rewriting it rewrites the file buffer in place.
rewriteMoovInPlace(fileBuffer, moovOffset, newMoovSize, delta, shiftThreshold) ==
  LET moovBuffer == Slice(fileBuffer, moovOffset, moovOffset + newMoovSize)
  IN Splice(fileBuffer, moovOffset, moovOffset + Len(moovBuffer),
            updateChunkOffsetsForStem(moovBuffer, delta, shiftThreshold))

(***************************************************************************)
(* The result of a write: the bytes on disk afterwards, and whether the    *)
(* call threw (nothing is written then).                                   *)
(***************************************************************************)
Written(buf) == [ok |-> TRUE, buf |-> buf]
Thrown(buf) == [ok |-> FALSE, buf |-> buf]

(***************************************************************************)
(* extractFreeformNamespace / extractFreeformName; null is NullStr.        *)
(***************************************************************************)
NullStr == <<-1>>

extractFreeformNamespace(freeformAtom) ==
  IF 8 + 8 > Len(freeformAtom) THEN NullStr
  ELSE LET meanSize == RdU32(freeformAtom, 8)
       IN IF Slice(freeformAtom, 12, 16) # T_mean THEN NullStr
          ELSE IF 8 + meanSize > Len(freeformAtom) THEN NullStr
          ELSE Slice(freeformAtom, 20, 8 + meanSize)

extractFreeformName(freeformAtom) ==
  IF 8 + 4 > Len(freeformAtom) THEN NullStr
  ELSE LET offset == 8 + RdU32(freeformAtom, 8)
       IN IF offset + 8 > Len(freeformAtom) THEN NullStr
          ELSE LET nameSize == RdU32(freeformAtom, offset)
               IN IF Slice(freeformAtom, offset + 4, offset + 8) # T_name THEN NullStr
                  ELSE IF offset + nameSize > Len(freeformAtom) THEN NullStr
                  ELSE Slice(freeformAtom, offset + 12, offset + nameSize)

(***************************************************************************)
(* injectAtomToIlst(filePath, atomData): find or create udta > meta >      *)
(* ilst, replace or append the atom, fix the sizes, rewrite the offsets.   *)
(* Each step of the function is an operator that receives what the steps   *)
(* before it computed.                                                     *)
(***************************************************************************)
\* const s = buffer.readUInt32BE(pos); buffer.writeUInt32BE(s + d, pos)
AddU32(b, pos, d) == WrU32(b, pos, RdU32(b, pos) + d)

\* udta found, or an empty udta inserted at the end of moov and moov grown by 8.
udtaOrNew(fileBuffer, moovAtom, udtaAtom) ==
  LET udtaPos == moovAtom.offset + moovAtom.size
  IN IF udtaAtom = NoAtom
     THEN [buf |-> WrU32(Splice(fileBuffer, udtaPos, udtaPos, U32(8) \o T_udta),
                         moovAtom.offset, moovAtom.size + 8),
           pos |-> udtaPos, size |-> 8, created |-> TRUE]
     ELSE [buf |-> fileBuffer, pos |-> udtaAtom.offset, size |-> udtaAtom.size,
           created |-> FALSE]

\* Find or create udta: the buffer, udtaPos and udtaSize afterwards.
ensureUdta(fileBuffer, moovAtom) ==
  udtaOrNew(fileBuffer, moovAtom,
            FindType(parseMP4Atoms(fileBuffer, moovAtom.dataOffset, moovAtom.size - 8),
                     T_udta))

\* meta found, or meta (version/flags + hdlr) inserted at the end of udta, with
\* the sizes of udta and moov grown by its length.
metaOrNew(u, moovAtom, metaAtom) ==
  LET metaPos == u.pos + u.size
      meta == createAtom(T_meta, U32(0) \o metaHdlr)
  IN IF metaAtom = NoAtom
     THEN [buf |-> AddU32(WrU32(Splice(u.buf, metaPos, metaPos, meta),
                                u.pos, u.size + Len(meta)),
                          moovAtom.offset, Len(meta)),
           pos |-> metaPos, size |-> Len(meta), created |-> TRUE]
     ELSE [buf |-> u.buf, pos |-> metaAtom.offset, size |-> metaAtom.size,
           created |-> FALSE]

ensureMeta(u, moovAtom) ==
  metaOrNew(u, moovAtom, FindType(parseMP4Atoms(u.buf, u.pos + 8, u.size - 8), T_meta))

\* The end of both branches: moov's size grows by sizeDelta and the offsets of
\* the new moov are rewritten with the same sizeDelta.
growMoov(fileBuffer, moovAtom, sizeDelta, originalMoovEnd) ==
  rewriteMoovInPlace(AddU32(fileBuffer, moovAtom.offset, sizeDelta), moovAtom.offset,
                     RdU32(fileBuffer, moovAtom.offset) + sizeDelta,
                     sizeDelta, originalMoovEnd)

\* The branch that creates ilst at the end of meta, holding the new atom.
createIlstWithAtom(u, m, moovAtom, originalMoovEnd, atomData) ==
  LET insertPos == m.pos + m.size
      ilst == createAtom(T_ilst, atomData)
      ilstSize == Len(ilst)
      sizeDelta == ilstSize
  IN growMoov(AddU32(WrU32(Splice(m.buf, insertPos, insertPos, ilst),
                           m.pos, m.size + ilstSize),
                     u.pos, ilstSize),
              moovAtom, sizeDelta, originalMoovEnd)

\* The existing child the new atom replaces: by (namespace, name) for ----,
\* by type otherwise; NoAtom when there is none.
findExistingAtom(fileBuffer, ilstChildren, atomData) ==
  LET atomType == Slice(atomData, 4, 8)
      matches(child) ==
        IF atomType = T_freeform
        THEN /\ child.type = T_freeform
             /\ extractFreeformNamespace(
                  Slice(fileBuffer, child.offset, child.offset + child.size))
                = extractFreeformNamespace(atomData)
             /\ extractFreeformName(
                  Slice(fileBuffer, child.offset, child.offset + child.size))
                = extractFreeformName(atomData)
        ELSE child.type = atomType
      idx == {i \in 1..Len(ilstChildren) : matches(ilstChildren[i])}
  IN IF idx = {} THEN NoAtom ELSE ilstChildren[Min(idx)]

\* Replace existingAtom by the new atom, or append the new atom to ilst.
replaceOrAppend(u, m, ilstAtom, moovAtom, originalMoovEnd, atomData, existingAtom) ==
  LET insertPos == ilstAtom.offset + ilstAtom.size
      sizeDelta == IF existingAtom # NoAtom
                   THEN Len(atomData) - existingAtom.size
                   ELSE Len(atomData)
  IN growMoov(
       AddU32(
         WrU32(
           WrU32(IF existingAtom # NoAtom
                 THEN Splice(m.buf, existingAtom.offset,
                             existingAtom.offset + existingAtom.size, atomData)
                 ELSE Splice(m.buf, insertPos, insertPos, atomData),
                 ilstAtom.offset, ilstAtom.size + sizeDelta),
           m.pos, m.size + sizeDelta),
         u.pos, sizeDelta),
       moovAtom, sizeDelta, originalMoovEnd)

\* The branch for an existing ilst.
putAtomInIlst(u, m, ilstAtom, moovAtom, originalMoovEnd, atomData) ==
  replaceOrAppend(u, m, ilstAtom, moovAtom, originalMoovEnd, atomData,
    findExistingAtom(m.buf,
                     parseMP4Atoms(m.buf, ilstAtom.offset + 8, ilstAtom.size - 8),
                     atomData))

injectIntoIlst(u, m, ilstAtom, moovAtom, atomData) ==
  IF ilstAtom = NoAtom
  THEN Written(createIlstWithAtom(u, m, moovAtom, moovAtom.offset + moovAtom.size,
                                  atomData))
  ELSE Written(putAtomInIlst(u, m, ilstAtom, moovAtom, moovAtom.offset + moovAtom.size,
                             atomData))

injectIntoMeta(u, m, moovAtom, atomData) ==
  injectIntoIlst(u, m, FindType(parseMP4Atoms(m.buf, m.pos + 12, m.size - 12), T_ilst),
                 moovAtom, atomData)

injectIntoUdta(u, moovAtom, atomData) ==
  injectIntoMeta(u, ensureMeta(u, moovAtom), moovAtom, atomData)

injectIntoMoov(data, moovAtom, atomData) ==
  IF moovAtom = NoAtom THEN Thrown(data)
  ELSE injectIntoUdta(ensureUdta(data, moovAtom), moovAtom, atomData)

injectAtomToIlst(data, atomData) ==
  injectIntoMoov(data, FindType(parseMP4Atoms(data, 0, Null), T_moov), atomData)

injectFreeformAtomToIlst(data, atomData) == injectAtomToIlst(data, atomData)

(***************************************************************************)
(* injectStemAtom(filePath, stemData): a stem atom at the end of udta.     *)
(***************************************************************************)
appendStem(u, moovAtom, stemData) ==
  LET stemAtom == U32(8 + Len(stemData)) \o T_stem \o stemData
      stemAtomSize == Len(stemAtom)
      insertPos == u.pos + u.size
      newMoovSize == (IF u.created THEN moovAtom.size + 8 ELSE moovAtom.size)
                     + stemAtomSize
  IN rewriteMoovInPlace(
       WrU32(WrU32(Splice(u.buf, insertPos, insertPos, stemAtom),
                   u.pos, u.size + stemAtomSize),
             moovAtom.offset, newMoovSize),
       moovAtom.offset, newMoovSize, stemAtomSize, moovAtom.offset + moovAtom.size)

stemIntoMoov(data, moovAtom, stemData) ==
  IF moovAtom = NoAtom THEN Thrown(data)
  ELSE Written(appendStem(ensureUdta(data, moovAtom), moovAtom, stemData))

injectStemAtom(data, stemData) ==
  stemIntoMoov(data, FindType(parseMP4Atoms(data, 0, Null), T_moov), stemData)

(***************************************************************************)
(* injectKaraAtom(inputPath, outputPath, karaJson): the kara path rebuilds *)
(* ilst, meta, udta and moov with createAtom.                              *)
(***************************************************************************)
\* ilstChildren.find((a) => a.type === '----'): the child writeKaraAtom replaces.
findExistingKara(fileBuffer, ilstChildren) == FindType(ilstChildren, T_freeform)

\* newIlstData: the children of ilst with the kara atom replacing existingKara,
\* or appended.
newIlstData(fileBuffer, ilstAtom, karaAtomData, existingKara) ==
  IF existingKara # NoAtom
  THEN Slice(fileBuffer, ilstAtom.dataOffset, existingKara.offset)
       \o karaAtomData
       \o Slice(fileBuffer, existingKara.offset + existingKara.size,
                ilstAtom.offset + ilstAtom.size)
  ELSE Slice(fileBuffer, ilstAtom.dataOffset, ilstAtom.dataOffset + ilstAtom.size - 8)
       \o karaAtomData

metaWithIlst(fileBuffer, metaAtom, karaAtomData, ilstAtom) ==
  IF ilstAtom = NoAtom
  THEN Slice(fileBuffer, metaAtom.dataOffset, metaAtom.dataOffset + metaAtom.size - 8)
       \o createAtom(T_ilst, karaAtomData)
  ELSE Slice(fileBuffer, metaAtom.dataOffset, ilstAtom.offset)
       \o createAtom(T_ilst,
            newIlstData(fileBuffer, ilstAtom, karaAtomData,
              findExistingKara(fileBuffer,
                parseMP4Atoms(fileBuffer, ilstAtom.dataOffset, ilstAtom.size - 8))))
       \o Slice(fileBuffer, ilstAtom.offset + ilstAtom.size,
                metaAtom.offset + metaAtom.size)

\* updateMetaWithKara(fileBuffer, metaAtom, karaAtomData): the new meta content.
updateMetaWithKara(fileBuffer, metaAtom, karaAtomData) ==
  metaWithIlst(fileBuffer, metaAtom, karaAtomData,
    FindType(parseMP4Atoms(fileBuffer, metaAtom.dataOffset + 4, metaAtom.size - 12),
             T_ilst))

\* The udta atom written when moov has no udta.
newUdtaForKara(karaAtomData) ==
  createAtom(T_udta, createMetaIlstKaraStructure(karaAtomData))

\* The content appended to udta when udta has no meta.
newMetaForKara(karaAtomData) == createMetaIlstKaraStructure(karaAtomData)

\* newUdtaData: the content of the rebuilt udta.
newUdtaData(fileBuffer, udtaAtom, karaAtomData, metaAtom) ==
  IF metaAtom = NoAtom
  THEN Slice(fileBuffer, udtaAtom.dataOffset, udtaAtom.offset + udtaAtom.size)
       \o newMetaForKara(karaAtomData)
  ELSE Slice(fileBuffer, udtaAtom.dataOffset, metaAtom.offset)
       \o createAtom(T_meta, updateMetaWithKara(fileBuffer, metaAtom, karaAtomData))
       \o Slice(fileBuffer, metaAtom.offset + metaAtom.size,
                udtaAtom.offset + udtaAtom.size)

moovDataWithUdta(fileBuffer, moovAtom, karaAtomData, udtaAtom) ==
  IF udtaAtom = NoAtom
  THEN Slice(fileBuffer, moovAtom.dataOffset, moovAtom.dataOffset + moovAtom.size - 8)
       \o newUdtaForKara(karaAtomData)
  ELSE Slice(fileBuffer, moovAtom.dataOffset, udtaAtom.offset)
       \o createAtom(T_udta,
            newUdtaData(fileBuffer, udtaAtom, karaAtomData,
              FindType(parseMP4Atoms(fileBuffer, udtaAtom.dataOffset, udtaAtom.size - 8),
                       T_meta)))
       \o Slice(fileBuffer, udtaAtom.offset + udtaAtom.size,
                moovAtom.offset + moovAtom.size)

\* newMoovData: the rebuilt content of moov.
karaMoovData(fileBuffer, moovAtom, karaAtomData) ==
  moovDataWithUdta(fileBuffer, moovAtom, karaAtomData,
    FindType(parseMP4Atoms(fileBuffer, moovAtom.dataOffset, moovAtom.size - 8), T_udta))

\* The new moov with its offsets rewritten, between the bytes before and after
\* the old one.
writeNewMoov(fileBuffer, moovAtom, newMoov) ==
  LET sizeDelta == Len(newMoov) - moovAtom.size
      originalMoovEnd == moovAtom.offset + moovAtom.size
  IN Written(Slice(fileBuffer, 0, moovAtom.offset)
             \o (IF sizeDelta # 0
                 THEN updateChunkOffsets(newMoov, sizeDelta, originalMoovEnd)
                 ELSE newMoov)
             \o SliceFrom(fileBuffer, moovAtom.offset + moovAtom.size))

karaIntoMoov(fileBuffer, moovAtom, karaAtomData) ==
  IF moovAtom = NoAtom THEN Thrown(fileBuffer)
  ELSE writeNewMoov(fileBuffer, moovAtom,
         createAtom(T_moov, karaMoovData(fileBuffer, moovAtom, karaAtomData)))

injectKaraAtom(fileBuffer, karaJson) ==
  karaIntoMoov(fileBuffer, FindType(parseMP4Atoms(fileBuffer, 0, Null), T_moov),
               createKaraAtom(karaJson))

(***************************************************************************)
(* The exported writers.  Texts are ASCII, whose UTF-8 bytes are their     *)
(* code points; an absent or empty text is <<>> and an absent number is 0, *)
(* both falsy in the source.                                               *)
(***************************************************************************)
\* JSON.stringify(karaData) for karaData a natural number: its decimal digits.
JSONstringify(karaData) == Digits(karaData)

writeKaraAtom(data, karaData) == injectKaraAtom(data, JSONstringify(karaData))

unclamped(lo, hi, v) == v

\* Math.max(lo, Math.min(hi, v))
clampTo(lo, hi, v) == IF v < lo THEN lo ELSE IF v > hi THEN hi ELSE v

RECURSIVE vpchSamples(_)
\* The (midi, cents) pairs: midi clamped to 0..127 as u8, cents to -50..50 as i8.
vpchSamples(samples) ==
  IF samples = <<>> THEN <<>>
  ELSE <<clampTo(0, 127, Head(samples).midi), I8(clampTo(-50, 50, Head(samples).cents))>>
       \o vpchSamples(Tail(samples))

\* The vpch payload: version 1, sample rate (25 when falsy), count, pairs.
vpchBinary(pitchData) ==
  <<1>> \o U32(IF pitchData.sampleRate = 0 THEN 25 ELSE pitchData.sampleRate)
        \o U32(Len(pitchData.data)) \o vpchSamples(pitchData.data)

writeVpchAtom(data, pitchData) ==
  IF ~pitchData.valid THEN Thrown(data)
  ELSE injectFreeformAtomToIlst(data,
         createBinaryFreeformAtom(S_com_stems, S_vpch, vpchBinary(pitchData)))

(***************************************************************************)
(* The reader's _parseVpchAtom(buffer): null for a payload shorter than 9  *)
(* bytes or of another version, else the sample rate and the (midi, cents) *)
(* entries, at most dataLength and as many as the buffer holds whole.  The *)
(* frequency the reader derives from each entry is not modelled.           *)
(***************************************************************************)
NullPitch == [isNull |-> TRUE, sampleRate |-> 0, data |-> <<>>]

\* readInt8
RdI8(byte) == IF byte >= 128 THEN byte - 256 ELSE byte

RECURSIVE vpchEntries(_, _, _, _, _)
vpchEntries(data, dataLength, i, offset, pitchData) ==
  IF ~(i < dataLength /\ offset + 1 < Len(data)) THEN pitchData
  ELSE vpchEntries(data, dataLength, i + 1, offset + 2,
                   Append(pitchData, [midi |-> data[offset + 1],
                                      cents |-> RdI8(data[offset + 2])]))

parseVpchAtom(data) ==
  IF Len(data) < 9 THEN NullPitch
  ELSE IF data[1] # 1 THEN NullPitch
  ELSE [isNull |-> FALSE, sampleRate |-> RdU32(data, 1),
        data |-> vpchEntries(data, RdU32(data, 5), 0, 9, <<>>)]

\* Math.round(timeSec * 1000) for a time given in half milliseconds.
roundMs(halfMs) == (halfMs + 1) \div 2

RECURSIVE konsTimes(_)
konsTimes(onsets) ==
  IF onsets = <<>> THEN <<>>
  ELSE U32(roundMs(Head(onsets))) \o konsTimes(Tail(onsets))

\* The kons payload: version 1, count, onset times in milliseconds.
konsBinary(onsets) == <<1>> \o U32(Len(onsets)) \o konsTimes(onsets)

(***************************************************************************)
(* The reader's _parseKonsAtom(buffer): null for a payload shorter than 5  *)
(* bytes or of another version, else the onset times, at most dataLength   *)
(* and as many as the buffer holds whole.  Times are kept in milliseconds  *)
(* (the reader divides each by 1000).                                      *)
(***************************************************************************)
NullOnsets == [isNull |-> TRUE, onsets |-> <<>>]

RECURSIVE konsEntries(_, _, _, _, _)
konsEntries(data, dataLength, i, offset, onsets) ==
  IF ~(i < dataLength /\ offset + 3 < Len(data)) THEN onsets
  ELSE konsEntries(data, dataLength, i + 1, offset + 4,
                   Append(onsets, RdU32(data, offset)))

parseKonsAtom(data) ==
  IF Len(data) < 5 THEN NullOnsets
  ELSE IF data[1] # 1 THEN NullOnsets
  ELSE [isNull |-> FALSE, onsets |-> konsEntries(data, RdU32(data, 1), 0, 5, <<>>)]

writeKonsAtom(data, onsetsData) ==
  IF ~onsetsData.valid THEN Thrown(data)
  ELSE injectFreeformAtomToIlst(data,
         createBinaryFreeformAtom(S_com_stems, S_kons, konsBinary(onsetsData.times)))

\* The ----:com.apple.iTunes:initialkey atom of addMusicalKey (data type 1).
musicalKeyAtom(musicalKey) ==
  createAtom(T_freeform, meanAtom(S_com_apple_iTunes) \o nameAtom(S_initialkey)
                         \o dataAtom(1, musicalKey))

addMusicalKey(data, musicalKey) == injectAtomToIlst(data, musicalKeyAtom(musicalKey))

\* createTextAtom(atomType, text), for a non-empty text.
createTextAtom(atomType, text) == createAtom(atomType, dataAtom(1, text))

\* createBpmAtom(bpm), for a non-zero bpm: data type 21, u16 big-endian.
createBpmAtom(bpm) == createAtom(T_tmpo, dataAtom(21, U16(bpm)))

\* atomsToWrite of addStandardMetadata, in the order the source pushes them.
atomsToWrite(metadata) ==
     (IF metadata.title # <<>> THEN <<createTextAtom(T_nam, metadata.title)>> ELSE <<>>)
  \o (IF metadata.artist # <<>> THEN <<createTextAtom(T_ART, metadata.artist)>> ELSE <<>>)
  \o (IF metadata.album # <<>> THEN <<createTextAtom(T_alb, metadata.album)>> ELSE <<>>)
  \o (IF metadata.year # 0 THEN <<createTextAtom(T_day, Digits(metadata.year))>> ELSE <<>>)
  \o (IF metadata.genre # <<>> THEN <<createTextAtom(T_gen, metadata.genre)>> ELSE <<>>)
  \o (IF metadata.tempo # 0 THEN <<createBpmAtom(metadata.tempo)>> ELSE <<>>)

RECURSIVE injectAll(_, _)
\* After one write: the remaining atoms go into the file it left.
injectRest(r, atoms) == IF r.ok THEN injectAll(r.buf, atoms) ELSE r

\* for (const { atom } of atomsToWrite) await injectAtomToIlst(filePath, atom)
injectAll(data, atoms) ==
  IF atoms = <<>> THEN Written(data)
  ELSE injectRest(injectAtomToIlst(data, Head(atoms)), Tail(atoms))

addStandardMetadata(data, metadata) ==
  IF metadata.tempo > 65535 THEN Thrown(data)
  ELSE injectAll(data, atomsToWrite(metadata))

\* The trkn atom: data type 0, payload reserved, track_no, track_of, reserved.
trknAtom(trackNo, trackOf) ==
  createAtom(T_trkn, dataAtom(0, U16(0) \o U16(trackNo) \o U16(trackOf) \o U16(0)))

RECURSIVE parseInt(_)
\* parseInt(text, 10) of a string of decimal digits.
parseInt(text) ==
  IF Len(text) = 1 THEN text[1] - 48
  ELSE parseInt(SubSeq(text, 1, Len(text) - 1)) * 10 + (text[Len(text)] - 48)

\* addTrackNumber(filePath, trackInfo): a number, a numeric string or {no, of};
\* anything else is reported and ignored.
addTrackNumber(data, trackInfo) ==
  IF trackInfo.kind # "invalid" /\ (trackInfo.no > 65535 \/ trackInfo.of > 65535)
  THEN Thrown(data)
  ELSE IF trackInfo.kind \in {"number", "string", "object"}
  THEN injectAtomToIlst(data,
         trknAtom(IF trackInfo.kind = "string" THEN parseInt(trackInfo.text)
                  ELSE trackInfo.no,
                  IF trackInfo.kind = "object" THEN trackInfo.of ELSE 0))
  ELSE Written(data)

\* The default stem names and the JSON document of addNiStemsMetadata, cut
\* down to its stems array of quoted names (the part that differs between
\* calls).
defaultStemNames ==
  << <<68, 114, 117, 109, 115>>, <<66, 97, 115, 115>>,
     <<79, 116, 104, 101, 114>>, <<86, 111, 99, 97, 108, 115>> >>

RECURSIVE quotedNames(_)
quotedNames(names) ==
  IF names = <<>> THEN <<>>
  ELSE <<34>> \o Head(names) \o <<34>>
       \o (IF Len(names) > 1 THEN <<44>> ELSE <<>>) \o quotedNames(Tail(names))

\* stemNames is [given, names]; a call without names (null) takes the default.
stemsMetadataJson(stemNames) ==
  <<91>> \o quotedNames(IF ~stemNames.given THEN defaultStemNames ELSE stemNames.names)
         \o <<93>>

addNiStemsMetadata(data, stemNames) == injectStemAtom(data, stemsMetadataJson(stemNames))

(***************************************************************************)
(* src/src/extractor.js: the atom parser of the extractor (it also stops   *)
(* at a size below 8), the readers of the sample tables, and the copy of   *)
(* the samples of one track.                                               *)
(***************************************************************************)
RECURSIVE parseAtomsLoop(_, _, _, _)
parseAtomsLoop(buffer, pos, endOffset, atoms) ==
  IF ~(pos < endOffset - 8) THEN atoms
  ELSE IF RdU32(buffer, pos) = 0 \/ RdU32(buffer, pos) < 8
          \/ RdU32(buffer, pos) > Len(buffer) - pos
  THEN atoms
  ELSE parseAtomsLoop(buffer, pos + RdU32(buffer, pos), endOffset,
         Append(atoms, [type |-> Slice(buffer, pos + 4, pos + 8), offset |-> pos,
                        size |-> RdU32(buffer, pos), dataOffset |-> pos + 8]))

parseAtoms(buffer, offset, maxLength) ==
  parseAtomsLoop(buffer, offset,
                 IF maxLength # Null THEN offset + maxLength ELSE Len(buffer), <<>>)

\* atoms.find((a) => a.type === type) || null, with NoAtom for null.
findAtom(atoms, type) == FindType(atoms, type)

RECURSIVE readEntries(_, _, _, _, _)
\* The loop of parseStco (width 4) and parseCo64 (width 8) from entry i on.
readEntries(buffer, atom, width, i, entryCount) ==
  IF ~(i < entryCount) THEN <<>>
  ELSE <<RdEntry(buffer, atom.dataOffset + 8 + i * width, width)>>
       \o readEntries(buffer, atom, width, i + 1, entryCount)

parseStco(buffer, atom) ==
  readEntries(buffer, atom, 4, 0, RdU32(buffer, atom.dataOffset + 4))

parseCo64(buffer, atom) ==
  readEntries(buffer, atom, 8, 0, RdU32(buffer, atom.dataOffset + 4))

\* sizes: null of a fixed-size table.
NullSizes == <<-1>>

RECURSIVE readSizes(_, _, _, _)
readSizes(buffer, atom, i, sampleCount) ==
  IF ~(i < sampleCount) THEN <<>>
  ELSE <<RdU32(buffer, atom.dataOffset + 12 + i * 4)>>
       \o readSizes(buffer, atom, i + 1, sampleCount)

parseStsz(buffer, atom) ==
  IF RdU32(buffer, atom.dataOffset + 4) > 0
  THEN [defaultSize |-> RdU32(buffer, atom.dataOffset + 4),
        sampleCount |-> RdU32(buffer, atom.dataOffset + 8), sizes |-> NullSizes]
  ELSE [defaultSize |-> 0, sampleCount |-> RdU32(buffer, atom.dataOffset + 8),
        sizes |-> readSizes(buffer, atom, 0, RdU32(buffer, atom.dataOffset + 8))]

RECURSIVE readStsc(_, _, _, _)
readStsc(buffer, atom, i, entryCount) ==
  IF ~(i < entryCount) THEN <<>>
  ELSE <<[firstChunk |-> RdU32(buffer, atom.dataOffset + 8 + i * 12),
          samplesPerChunk |-> RdU32(buffer, atom.dataOffset + 8 + i * 12 + 4),
          sampleDescriptionIndex |-> RdU32(buffer, atom.dataOffset + 8 + i * 12 + 8)]>>
       \o readStsc(buffer, atom, i + 1, entryCount)

parseStsc(buffer, atom) == readStsc(buffer, atom, 0, RdU32(buffer, atom.dataOffset + 4))

\* The whole stsd atom, header included.
parseStsd(buffer, atom) == Slice(buffer, atom.offset, atom.offset + atom.size)

RECURSIVE readStts(_, _, _, _)
readStts(buffer, atom, i, entryCount) ==
  IF ~(i < entryCount) THEN <<>>
  ELSE <<[sampleCount |-> RdU32(buffer, atom.dataOffset + 8 + i * 8),
          sampleDelta |-> RdU32(buffer, atom.dataOffset + 8 + i * 8 + 4)]>>
       \o readStts(buffer, atom, i + 1, entryCount)

parseStts(buffer, atom) == readStts(buffer, atom, 0, RdU32(buffer, atom.dataOffset + 4))

parseMdhd(buffer, atom) ==
  IF buffer[atom.dataOffset + 1] = 0
  THEN [timescale |-> RdU32(buffer, atom.dataOffset + 12),
        duration |-> RdU32(buffer, atom.dataOffset + 16)]
  ELSE [timescale |-> RdU32(buffer, atom.dataOffset + 20),
        duration |-> RdU64(buffer, atom.dataOffset + 24)]

\* A lookup that knows only the first stsc entry: the samples of a track
\* whose chunks differ in length are not all copied with it.
stscFirstEntryOnly(stscEntries, chunkNumber, i) == stscEntries[1].samplesPerChunk

RECURSIVE stscLookup(_, _, _)
\* The inner loop of buildChunkSampleMap from index i (0-based) downwards: the
\* last entry whose firstChunk is at most chunkNumber, else the first entry's.
stscLookup(stscEntries, chunkNumber, i) ==
  IF ~(i >= 0) THEN stscEntries[1].samplesPerChunk
  ELSE IF chunkNumber >= stscEntries[i + 1].firstChunk
  THEN stscEntries[i + 1].samplesPerChunk
  ELSE stscLookup(stscEntries, chunkNumber, i - 1)

RECURSIVE chunkMapFrom(_, _, _, _)
chunkMapFrom(stscEntries, totalChunks, chunkIndex, currentSampleIndex) ==
  IF ~(chunkIndex < totalChunks) THEN <<>>
  ELSE <<[chunkIndex |-> chunkIndex, sampleStart |-> currentSampleIndex,
          sampleCount |-> stscLookup(stscEntries, chunkIndex + 1, Len(stscEntries) - 1)]>>
       \o chunkMapFrom(stscEntries, totalChunks, chunkIndex + 1,
                       currentSampleIndex
                       + stscLookup(stscEntries, chunkIndex + 1, Len(stscEntries) - 1))

buildChunkSampleMap(stscEntries, totalChunks) ==
  chunkMapFrom(stscEntries, totalChunks, 0, 0)

RECURSIVE sumSizes(_)
\* sizes.reduce((sum, size) => sum + size, 0)
sumSizes(sizes) == IF sizes = <<>> THEN 0 ELSE Head(sizes) + sumSizes(Tail(sizes))

totalSizeOf(sampleSizes) ==
  IF sampleSizes.sizes # NullSizes THEN sumSizes(sampleSizes.sizes)
  ELSE sampleSizes.sampleCount * sampleSizes.defaultSize

\* source.copy(target, targetStart, sourceStart, sourceEnd): the bytes that fit.
bufferCopy(source, target, targetStart, sourceStart, sourceEnd) ==
  IF targetStart >= Len(target) \/ sourceStart >= Len(source) \/ sourceEnd <= sourceStart
  THEN target
  ELSE Splice(target, targetStart,
              targetStart + Len(Slice(Slice(source, sourceStart, sourceEnd), 0,
                                      Len(target) - targetStart)),
              Slice(Slice(source, sourceStart, sourceEnd), 0, Len(target) - targetStart))

sampleSizeAt(sampleSizes, sampleIndex) ==
  IF sampleSizes.sizes # NullSizes THEN sampleSizes.sizes[sampleIndex + 1]
  ELSE sampleSizes.defaultSize

\* One pass of the inner loop: a sample copied, both offsets advanced.  copy
\* throws ERR_OUT_OF_RANGE when sourceStart lies past the end of the source.
copySample(fileBuffer, sampleSize, w) ==
  IF w.readOffset > Len(fileBuffer) THEN [w EXCEPT !.ok = FALSE]
  ELSE [audioData |-> bufferCopy(fileBuffer, w.audioData, w.writeOffset, w.readOffset,
                                 w.readOffset + sampleSize),
        writeOffset |-> w.writeOffset + sampleSize,
        readOffset |-> w.readOffset + sampleSize,
        ok |-> TRUE]

RECURSIVE copySamples(_, _, _, _, _)
\* The inner for loop over the samples of one chunk from sample i on; w is
\* the audio buffer, the write offset and the read offset so far, and
\* whether no copy has thrown.
copySamples(fileBuffer, sampleSizes, chunk, i, w) ==
  IF ~(i < chunk.sampleCount) \/ ~w.ok THEN w
  ELSE copySamples(fileBuffer, sampleSizes, chunk, i + 1,
         copySample(fileBuffer, sampleSizeAt(sampleSizes, chunk.sampleStart + i), w))

RECURSIVE copyChunks(_, _, _, _, _)
\* The outer for loop over chunkMap from position k (1-based).
copyChunks(fileBuffer, sampleTable, chunkMap, k, w) ==
  IF k > Len(chunkMap) \/ ~w.ok THEN w
  ELSE copyChunks(fileBuffer, sampleTable, chunkMap, k + 1,
         copySamples(fileBuffer, sampleTable.sampleSizes, chunkMap[k], 0,
                     [w EXCEPT !.readOffset =
                        sampleTable.chunkOffsets[chunkMap[k].chunkIndex + 1]]))

\* extractAudioData(fileBuffer, sampleTable): the audio buffer, and whether
\* the call returned it (ok) or threw.
extractAudioData(fileBuffer, sampleTable) ==
  copyChunks(fileBuffer, sampleTable,
             buildChunkSampleMap(sampleTable.stscEntries, Len(sampleTable.chunkOffsets)),
             1, [audioData |-> Zeros(totalSizeOf(sampleTable.sampleSizes)),
                 writeOffset |-> 0, readOffset |-> 0, ok |-> TRUE])

(***************************************************************************)
(* buildM4aFile(trackInfo): ftyp, moov (mvhd, one trak), mdat.             *)
(***************************************************************************)
buildFtyp ==
  createAtom(T_ftyp, <<77, 52, 65, 32, 0, 0, 0, 0, 77, 52, 65, 32,
                       109, 112, 52, 50, 105, 115, 111, 109>>)

RECURSIVE sttsRows(_)
sttsRows(sttsEntries) ==
  IF sttsEntries = <<>> THEN <<>>
  ELSE U32(Head(sttsEntries).sampleCount) \o U32(Head(sttsEntries).sampleDelta)
       \o sttsRows(Tail(sttsEntries))

buildStts(sttsEntries) ==
  createAtom(T_stts, U32(0) \o U32(Len(sttsEntries)) \o sttsRows(sttsEntries))

\* An stsc that puts one sample in the chunk: the output would no longer
\* describe all samples of the track.
buildStscOneSample(sampleSizes) ==
  createAtom(T_stsc, U32(0) \o U32(1) \o U32(1) \o U32(1) \o U32(1))

\* All samples in one chunk: one entry (1, sample count, 1).
buildStsc(sampleSizes) ==
  createAtom(T_stsc, U32(0) \o U32(1) \o U32(1) \o U32(sampleSizes.sampleCount) \o U32(1))

RECURSIVE sizeRows(_)
sizeRows(sizes) == IF sizes = <<>> THEN <<>> ELSE U32(Head(sizes)) \o sizeRows(Tail(sizes))

buildStsz(sampleSizes) ==
  IF sampleSizes.defaultSize > 0
  THEN createAtom(T_stsz, U32(0) \o U32(sampleSizes.defaultSize)
                          \o U32(sampleSizes.sampleCount))
  ELSE createAtom(T_stsz, U32(0) \o U32(0) \o U32(Len(sampleSizes.sizes))
                          \o sizeRows(sampleSizes.sizes))

\* The placeholder stco: one entry, filled in once the size of moov is known.
buildStco == createAtom(T_stco, U32(0) \o U32(1) \o Zeros(4))

buildStbl(trackInfo) ==
  createAtom(T_stbl, trackInfo.stsd \o buildStts(trackInfo.sttsEntries)
                     \o buildStsc(trackInfo.sampleSizes)
                     \o buildStsz(trackInfo.sampleSizes) \o buildStco)

buildDinf ==
  createAtom(T_dinf, createAtom(T_dref,
    <<0, 0, 0, 0, 0, 0, 0, 1, 0, 0, 0, 12, 117, 114, 108, 32, 0, 0, 0, 1>>))

buildSmhd == createAtom(T_smhd, <<0, 0, 0, 0, 0, 0, 0, 0>>)

buildMinf(trackInfo) ==
  createAtom(T_minf, buildSmhd \o buildDinf \o buildStbl(trackInfo))

buildHdlr ==
  createAtom(T_hdlr, <<0, 0, 0, 0, 0, 0, 0, 0, 115, 111, 117, 110,
                       0, 0, 0, 0, 0, 0, 0, 0, 0, 0, 0, 0, 0>>)

buildMdhd(mdhd) ==
  createAtom(T_mdhd, U32(0) \o U32(0) \o U32(0) \o U32(mdhd.timescale)
                     \o U32(mdhd.duration) \o U16(21956) \o U16(0))

buildMdia(trackInfo) ==
  createAtom(T_mdia, buildMdhd(trackInfo.mdhd) \o buildHdlr \o buildMinf(trackInfo))

\* 84 bytes: flags 7, track_id 1 at 12, duration at 20, 0x00010000 at 76.
buildTkhd(mdhd) ==
  createAtom(T_tkhd, <<0, 0, 0, 7>> \o Zeros(8) \o U32(1) \o Zeros(4)
                     \o U32(mdhd.duration) \o Zeros(52) \o U32(65536) \o Zeros(4))

buildTrak(trackInfo) ==
  createAtom(T_trak, buildTkhd(trackInfo.mdhd) \o buildMdia(trackInfo))

\* 100 bytes: timescale at 12, duration at 16, rate at 20, volume at 24, the
\* identity matrix at 36, 52 and 68, next_track_id 2 at 96.
buildMvhd(mdhd) ==
  createAtom(T_mvhd, U32(0) \o Zeros(8) \o U32(mdhd.timescale) \o U32(mdhd.duration)
                     \o U32(65536) \o U16(256) \o Zeros(10)
                     \o U32(65536) \o Zeros(12) \o U32(65536) \o Zeros(12)
                     \o U32(1073741824) \o Zeros(24) \o U32(2))

buildMoov(trackInfo) ==
  createAtom(T_moov, buildMvhd(trackInfo.mdhd) \o buildTrak(trackInfo))

patchToMdatHeader(ftyp, moov, stco) ==
  WrU32(moov, Len(moov) - Len(stco) + 8 + 8, Len(ftyp) + Len(moov))

\* moov.writeUInt32BE(chunkOffset, moov.length - stco.length + 8 + 8) with
\* chunkOffset = ftyp.length + moov.length + 8.
patchChunkOffset(ftyp, moov, stco) ==
  WrU32(moov, Len(moov) - Len(stco) + 8 + 8, Len(ftyp) + Len(moov) + 8)

buildM4aFile(trackInfo) ==
  buildFtyp \o patchChunkOffset(buildFtyp, buildMoov(trackInfo), buildStco)
            \o createAtom(T_mdat, trackInfo.audioData)

(***************************************************************************)
(* findTrack, parseSampleTableFromTrak and extractTrack.  A result is      *)
(* [ok, buf]; ok is FALSE when the call throws.                            *)
(***************************************************************************)
traksOf(buffer, moov) ==
  SelectSeq(parseAtoms(buffer, moov.dataOffset, moov.size - 8),
            LAMBDA a : a.type = T_trak)

\* findTrack(buffer, trackIndex): the trak, or NoAtom for null.
findTrackIn(buffer, trackIndex, moov) ==
  IF moov = NoAtom THEN NoAtom
  ELSE IF trackIndex >= Len(traksOf(buffer, moov)) THEN NoAtom
  ELSE traksOf(buffer, moov)[trackIndex + 1]

findTrack(buffer, trackIndex) ==
  findTrackIn(buffer, trackIndex, findAtom(parseAtoms(buffer, 0, Null), T_moov))

\* throw new Error(message) while the sample table is read.
NoTable(message) == [ok |-> FALSE, error |-> message]

chunkOffsetsWideFirst(buffer, stblChildren) ==
  IF findAtom(stblChildren, T_co64) # NoAtom
  THEN parseCo64(buffer, findAtom(stblChildren, T_co64))
  ELSE parseStco(buffer, findAtom(stblChildren, T_stco))

\* chunkOffsets = stcoAtom ? parseStco(buffer, stcoAtom) : parseCo64(buffer, co64Atom)
chunkOffsetsOf(buffer, stblChildren) ==
  IF findAtom(stblChildren, T_stco) # NoAtom
  THEN parseStco(buffer, findAtom(stblChildren, T_stco))
  ELSE parseCo64(buffer, findAtom(stblChildren, T_co64))

\* The record parseSampleTableFromTrak returns, from the children of stbl.
tableFromStbl(buffer, stblChildren, mdhd) ==
  IF findAtom(stblChildren, T_stsz) = NoAtom THEN NoTable("No stsz atom found")
  ELSE IF findAtom(stblChildren, T_stsc) = NoAtom THEN NoTable("No stsc atom found")
  ELSE IF findAtom(stblChildren, T_stsd) = NoAtom THEN NoTable("No stsd atom found")
  ELSE IF findAtom(stblChildren, T_stco) = NoAtom /\ findAtom(stblChildren, T_co64) = NoAtom
  THEN NoTable("No stco or co64 atom found")
  ELSE [ok |-> TRUE,
        chunkOffsets |-> chunkOffsetsOf(buffer, stblChildren),
        sampleSizes |-> parseStsz(buffer, findAtom(stblChildren, T_stsz)),
        stscEntries |-> parseStsc(buffer, findAtom(stblChildren, T_stsc)),
        stsd |-> parseStsd(buffer, findAtom(stblChildren, T_stsd)),
        sttsEntries |-> IF findAtom(stblChildren, T_stts) # NoAtom
                        THEN parseStts(buffer, findAtom(stblChildren, T_stts))
                        ELSE <<[sampleCount |-> 1, sampleDelta |-> 1]>>,
        mdhd |-> parseMdhd(buffer, mdhd)]

tableFromMinf(buffer, minfChildren, mdhd) ==
  IF findAtom(minfChildren, T_stbl) = NoAtom THEN NoTable("No stbl atom found in minf")
  ELSE tableFromStbl(buffer,
         parseAtoms(buffer, findAtom(minfChildren, T_stbl).dataOffset,
                    findAtom(minfChildren, T_stbl).size - 8),
         mdhd)

tableFromMdia(buffer, mdiaChildren) ==
  IF findAtom(mdiaChildren, T_minf) = NoAtom THEN NoTable("No minf atom found in mdia")
  ELSE IF findAtom(mdiaChildren, T_mdhd) = NoAtom THEN NoTable("No mdhd atom found in mdia")
  ELSE tableFromMinf(buffer,
         parseAtoms(buffer, findAtom(mdiaChildren, T_minf).dataOffset,
                    findAtom(mdiaChildren, T_minf).size - 8),
         findAtom(mdiaChildren, T_mdhd))

tableFromTrak(buffer, trakChildren) ==
  IF findAtom(trakChildren, T_mdia) = NoAtom THEN NoTable("No mdia atom found in trak")
  ELSE tableFromMdia(buffer,
         parseAtoms(buffer, findAtom(trakChildren, T_mdia).dataOffset,
                    findAtom(trakChildren, T_mdia).size - 8))

parseSampleTableFromTrak(buffer, trak) ==
  tableFromTrak(buffer, parseAtoms(buffer, trak.dataOffset, trak.size - 8))

\* A call of the extractor that throws: no buffer, and the message of the error.
Failed(message) == [ok |-> FALSE, buf |-> <<>>, error |-> message]

\* stscEntries[0].samplesPerChunk of an empty stsc table is a TypeError as
\* soon as there is a chunk to map.
audioDataThrows(sampleTable) ==
  Len(sampleTable.chunkOffsets) > 0 /\ sampleTable.stscEntries = <<>>

extractFromTable(fileBuffer, sampleTable) ==
  IF ~sampleTable.ok THEN Failed(sampleTable.error)
  ELSE IF audioDataThrows(sampleTable)
  THEN Failed("Cannot read properties of undefined (reading 'samplesPerChunk')")
  ELSE IF ~extractAudioData(fileBuffer, sampleTable).ok
  THEN Failed("The value of \"sourceStart\" is out of range")
  ELSE Written(buildM4aFile([audioData |-> extractAudioData(fileBuffer, sampleTable).audioData,
                             stsd |-> sampleTable.stsd,
                             sampleSizes |-> sampleTable.sampleSizes,
                             sttsEntries |-> sampleTable.sttsEntries,
                             mdhd |-> sampleTable.mdhd]))

\* The message of the source is `Track ${trackIndex} not found in file`.
extractFromTrak(fileBuffer, trak) ==
  IF trak = NoAtom THEN Failed("Track not found in file")
  ELSE extractFromTable(fileBuffer, parseSampleTableFromTrak(fileBuffer, trak))

extractTrack(fileBuffer, trackIndex) ==
  extractFromTrak(fileBuffer, findTrack(fileBuffer, trackIndex))

(***************************************************************************)
(* extractAllTracks, getTrackCount and getTrackInfo.  All three throw when *)
(* the file has no moov; the loops of extractAllTracks and getTrackInfo    *)
(* catch what the decoding of one track throws.                            *)
(***************************************************************************)
\* The least sample count of a track that extractAllTracks extracts.
MinSamples == 100

\* A pass of the loop without the test of the sample count: tracks of a few
\* samples would be extracted too.
trackWhateverCount(fileBuffer, sampleTable) ==
  IF ~sampleTable.ok THEN <<>>
  ELSE IF ~extractFromTable(fileBuffer, sampleTable).ok THEN <<>>
  ELSE <<extractFromTable(fileBuffer, sampleTable).buf>>

\* One pass of the loop of extractAllTracks: the buffers pushed for one track.
trackOrSkip(fileBuffer, sampleTable) ==
  IF ~sampleTable.ok THEN <<>>
  ELSE IF sampleTable.sampleSizes.sampleCount < MinSamples THEN <<>>
  ELSE IF ~extractFromTable(fileBuffer, sampleTable).ok THEN <<>>
  ELSE <<extractFromTable(fileBuffer, sampleTable).buf>>

RECURSIVE tracksFrom(_, _, _)
\* The loop of extractAllTracks from track i (0-based) on.
tracksFrom(fileBuffer, traks, i) ==
  IF ~(i < Len(traks)) THEN <<>>
  ELSE trackOrSkip(fileBuffer, parseSampleTableFromTrak(fileBuffer, traks[i + 1]))
       \o tracksFrom(fileBuffer, traks, i + 1)

allTracksIn(fileBuffer, moov) ==
  IF moov = NoAtom THEN [ok |-> FALSE, value |-> <<>>, error |-> "No moov atom found"]
  ELSE [ok |-> TRUE, value |-> tracksFrom(fileBuffer, traksOf(fileBuffer, moov), 0)]

extractAllTracks(fileBuffer) ==
  allTracksIn(fileBuffer, findAtom(parseAtoms(fileBuffer, 0, Null), T_moov))

trackCountIn(fileBuffer, moov) ==
  IF moov = NoAtom THEN [ok |-> FALSE, value |-> 0, error |-> "No moov atom found"]
  ELSE [ok |-> TRUE, value |-> Len(traksOf(fileBuffer, moov))]

getTrackCount(fileBuffer) ==
  trackCountIn(fileBuffer, findAtom(parseAtoms(fileBuffer, 0, Null), T_moov))

\* The entry getTrackInfo pushes for track i; the quotient duration / timescale
\* is kept as the pair of its terms.
trackInfoEntry(i, sampleTable) ==
  IF sampleTable.ok
  THEN [index |-> i, sampleCount |-> sampleTable.sampleSizes.sampleCount,
        duration |-> <<sampleTable.mdhd.duration, sampleTable.mdhd.timescale>>,
        timescale |-> sampleTable.mdhd.timescale]
  ELSE [index |-> i, error |-> sampleTable.error]

RECURSIVE trackInfoFrom(_, _, _)
trackInfoFrom(fileBuffer, traks, i) ==
  IF ~(i < Len(traks)) THEN <<>>
  ELSE <<trackInfoEntry(i, parseSampleTableFromTrak(fileBuffer, traks[i + 1]))>>
       \o trackInfoFrom(fileBuffer, traks, i + 1)

trackInfoIn(fileBuffer, moov) ==
  IF moov = NoAtom THEN [ok |-> FALSE, value |-> <<>>, error |-> "No moov atom found"]
  ELSE [ok |-> TRUE, value |-> trackInfoFrom(fileBuffer, traksOf(fileBuffer, moov), 0)]

getTrackInfo(fileBuffer) ==
  trackInfoIn(fileBuffer, findAtom(parseAtoms(fileBuffer, 0, Null), T_moov))

(***************************************************************************)
(* The files the writers start from.  Two tracks: one with a two-entry     *)
(* stco, one with a one-entry co64; the media bytes 201..205 are unique in *)
(* mdat.  mdat precedes or follows moov, udta is absent, empty, first or   *)
(* last among the tracks, and holds meta and ilst or not.                  *)
(***************************************************************************)
ftypAtom == createAtom(T_ftyp, <<77, 52, 65, 32, 0, 0, 0, 0>>)
mvhdAtom == createAtom(T_mvhd, <<0, 0, 0, 0>>)
mediaBytes == <<201, 202, 203, 204, 205>>
mdatAtom == createAtom(T_mdat, mediaBytes)

\* Entry offsets relative to the first media byte: track A chunks, track B chunk.
chunksA == <<0, 2>>
chunksB == <<3>>

trakOf(table) == createAtom(T_trak, createAtom(T_mdia, createAtom(T_minf,
                   createAtom(T_stbl, table))))

stcoAtom(base, rel) ==
  createAtom(T_stco, U32(0) \o U32(Len(rel)) \o U32(base + rel[1]) \o U32(base + rel[2]))
co64Atom(base, rel) ==
  createAtom(T_co64, U32(0) \o U32(Len(rel)) \o U64(base + rel[1]))

tooAtom == createAtom(T_too, dataAtom(1, <<76>>))

udtaOf(kind) ==
  IF kind = "none" THEN <<>>
  ELSE IF kind = "empty" THEN createAtom(T_udta, <<>>)
  ELSE IF kind = "meta" THEN createAtom(T_udta, createAtom(T_meta, U32(0) \o metaHdlr))
  ELSE IF kind = "ilst0"
  THEN createAtom(T_udta, createAtom(T_meta, U32(0) \o metaHdlr \o createAtom(T_ilst, <<>>)))
  ELSE createAtom(T_udta, createAtom(T_meta, U32(0) \o metaHdlr
                                              \o createAtom(T_ilst, tooAtom)))

moovOf(layout, base) ==
  createAtom(T_moov,
       mvhdAtom
    \o (IF layout.udtaFirst THEN udtaOf(layout.kind) ELSE <<>>)
    \o trakOf(stcoAtom(base, chunksA)) \o trakOf(co64Atom(base, chunksB))
    \o (IF layout.udtaFirst THEN <<>> ELSE udtaOf(layout.kind)))

\* The media start: right after the mdat header, wherever mdat lies.
mediaBase(layout) ==
  IF layout.mdatFirst THEN Len(ftypAtom) + 8
  ELSE Len(ftypAtom) + Len(moovOf(layout, 0)) + 8

fileOf(layout) ==
  IF layout.kind = "nomoov" THEN ftypAtom \o mdatAtom
  ELSE IF layout.mdatFirst
  THEN ftypAtom \o mdatAtom \o moovOf(layout, mediaBase(layout))
  ELSE ftypAtom \o moovOf(layout, mediaBase(layout)) \o mdatAtom

UdtaKinds == {"none", "empty", "meta", "ilst0", "ilst"}

Layouts ==
  {[mdatFirst |-> mf, udtaFirst |-> uf, kind |-> k] :
     mf \in BOOLEAN, uf \in BOOLEAN, k \in UdtaKinds}
  \cup {[mdatFirst |-> FALSE, udtaFirst |-> FALSE, kind |-> "nomoov"]}

InitialFiles == {fileOf(l) : l \in Layouts}

(***************************************************************************)
(* The files the extractor reads: ftyp, moov, mdat with two tracks.  The   *)
(* first track has up to MaxSamples samples of one or two bytes, a fixed-  *)
(* size or a per-sample stsz, any split of the samples into chunks (stsc   *)
(* has one entry per run of equal chunk lengths), chunks packed or one     *)
(* byte apart, an stco or a co64 table and stts present or absent.  The    *)
(* second track has one two-byte sample.  The media bytes count up from    *)
(* 201, so each sample is recognisable in the output.                      *)
(***************************************************************************)
SampleSizes == {1, 2}
gapByte == <<250>>

RECURSIVE Compositions(_)
\* The ways to split n samples into consecutive non-empty chunks.
Compositions(n) ==
  IF n = 0 THEN {<<>>}
  ELSE UNION {{<<k>> \o c : c \in Compositions(n - k)} : k \in 1..n}

TrackShapes ==
  UNION {{[sizes |-> sz, chunks |-> ch, fixed |-> fx, gapped |-> g, wide |-> w,
           stts |-> t] :
            sz \in [1..n -> SampleSizes], ch \in Compositions(n),
            fx \in BOOLEAN, g \in BOOLEAN, w \in BOOLEAN, t \in BOOLEAN} :
         n \in 1..MaxSamples}

\* A fixed-size stsz can describe only samples of one size.
SourceShapes ==
  {sh \in TrackShapes : sh.fixed => \A i \in DOMAIN sh.sizes : sh.sizes[i] = sh.sizes[1]}

RECURSIVE sumTo(_, _)
\* The sum of the first n elements of a sequence of numbers.
sumTo(seq, n) == IF n = 0 THEN 0 ELSE seq[n] + sumTo(seq, n - 1)

\* The bytes of chunk c of a shape: its samples, numbered from 201.
chunkBytes(sh, c) ==
  [i \in 1..(sumTo(sh.sizes, sumTo(sh.chunks, c)) - sumTo(sh.sizes, sumTo(sh.chunks, c - 1)))
     |-> 200 + sumTo(sh.sizes, sumTo(sh.chunks, c - 1)) + i]

\* Where chunk c starts within the media of the track.
chunkStart(sh, c) ==
  sumTo(sh.sizes, sumTo(sh.chunks, c - 1)) + (IF sh.gapped THEN c ELSE 0)

RECURSIVE trackMedia(_, _)
trackMedia(sh, c) ==
  IF c > Len(sh.chunks) THEN <<>>
  ELSE (IF sh.gapped THEN gapByte ELSE <<>>) \o chunkBytes(sh, c) \o trackMedia(sh, c + 1)

RECURSIVE offsetRows(_, _, _)
offsetRows(sh, base, c) ==
  IF c > Len(sh.chunks) THEN <<>>
  ELSE (IF sh.wide THEN U64(base + chunkStart(sh, c)) ELSE U32(base + chunkStart(sh, c)))
       \o offsetRows(sh, base, c + 1)

RECURSIVE stscRows(_, _)
stscRows(sh, c) ==
  IF c > Len(sh.chunks) THEN <<>>
  ELSE (IF c = 1 \/ sh.chunks[c] # sh.chunks[c - 1]
        THEN <<U32(c) \o U32(sh.chunks[c]) \o U32(1)>> ELSE <<>>)
       \o stscRows(sh, c + 1)

RECURSIVE Flatten(_)
Flatten(seqs) == IF seqs = <<>> THEN <<>> ELSE Head(seqs) \o Flatten(Tail(seqs))

srcStsd == createAtom(T_stsd, <<0, 0, 0, 0, 0, 0, 0, 1, 109, 112, 52, 97>>)

srcStbl(sh, base) ==
  createAtom(T_stbl,
       srcStsd
    \o (IF sh.stts
        THEN createAtom(T_stts, U32(0) \o U32(1) \o U32(Len(sh.sizes)) \o U32(1024))
        ELSE <<>>)
    \o createAtom(T_stsc, U32(0) \o U32(Len(stscRows(sh, 1))) \o Flatten(stscRows(sh, 1)))
    \o (IF sh.fixed
        THEN createAtom(T_stsz, U32(0) \o U32(sh.sizes[1]) \o U32(Len(sh.sizes)))
        ELSE createAtom(T_stsz, U32(0) \o U32(0) \o U32(Len(sh.sizes))
                                \o sizeRows(sh.sizes)))
    \o createAtom(IF sh.wide THEN T_co64 ELSE T_stco,
                  U32(0) \o U32(Len(sh.chunks)) \o offsetRows(sh, base, 1)))

\* mdhd version 0 (timescale 44100, duration 3) or version 1 (64-bit times).
srcMdhd(wide) ==
  IF wide
  THEN createAtom(T_mdhd, <<1, 0, 0, 0>> \o Zeros(16) \o U32(48000) \o U64(5) \o Zeros(4))
  ELSE createAtom(T_mdhd, Zeros(12) \o U32(44100) \o U32(3) \o Zeros(4))

srcTrak(sh, base) ==
  createAtom(T_trak,
    createAtom(T_tkhd, Zeros(4))
    \o createAtom(T_mdia, srcMdhd(sh.wide) \o createAtom(T_minf, srcStbl(sh, base))))

\* The second track: one chunk holding one sample of two bytes.
secondShape ==
  [sizes |-> <<2>>, chunks |-> <<1>>, fixed |-> TRUE, gapped |-> FALSE, wide |-> TRUE,
   stts |-> FALSE]

secondMedia == <<240, 241>>

srcMoov(sh, base) ==
  createAtom(T_moov, mvhdAtom \o srcTrak(sh, base)
                     \o srcTrak(secondShape, base + Len(trackMedia(sh, 1))))

sourceFile(sh) ==
  ftypAtom \o srcMoov(sh, Len(ftypAtom) + Len(srcMoov(sh, 0)) + 8)
           \o createAtom(T_mdat, trackMedia(sh, 1) \o secondMedia)

SourceFiles == {sourceFile(sh) : sh \in SourceShapes}

(***************************************************************************)
(* Files of several tracks for extractAllTracks, getTrackCount and         *)
(* getTrackInfo: ftyp, moov (mvhd and the traks), mdat; one file has no    *)
(* moov.  A track is of a kind: "audio" has 100 one-byte samples in one    *)
(* chunk, "short" has 99, "nostts" and "both" (an stco and a co64 table    *)
(* that differ) are audio tracks too, "emptystsc" has an stsc without      *)
(* entries, the chunk of "badoffset" lies past the end of the file,        *)
(* "empty" is a trak of 8 bytes and the others lack the box they are       *)
(* named after.  The chunk of the track at position k starts k bytes   *)
(* into the media, whose bytes count up from 101.                          *)
(***************************************************************************)
CoreKinds == {"audio", "short", "nomdia", "emptystsc", "empty"}
BoxKinds == {"nomdhd", "nominf", "nostbl", "nostsz", "nostsc", "nostsd", "nooffsets",
             "nostts", "both", "badoffset"}
TrackKinds == CoreKinds \cup BoxKinds

kindStbl(kind, offset) ==
  createAtom(T_stbl,
       (IF kind = "nostsd" THEN <<>> ELSE srcStsd)
    \o (IF kind = "nostts" THEN <<>>
        ELSE createAtom(T_stts, U32(0) \o U32(1) \o U32(MinSamples) \o U32(1024)))
    \o (IF kind = "nostsc" THEN <<>>
        ELSE IF kind = "emptystsc" THEN createAtom(T_stsc, U32(0) \o U32(0))
        ELSE createAtom(T_stsc, U32(0) \o U32(1) \o U32(1) \o U32(MinSamples) \o U32(1)))
    \o (IF kind = "nostsz" THEN <<>>
        ELSE createAtom(T_stsz, U32(0) \o U32(1)
                                \o U32(IF kind = "short" THEN MinSamples - 1
                                       ELSE MinSamples)))
    \o (IF kind = "nooffsets" THEN <<>>
        ELSE createAtom(T_stco, U32(0) \o U32(1)
                                \o U32(IF kind = "badoffset" THEN 16777216 ELSE offset)))
    \o (IF kind = "both" THEN createAtom(T_co64, U32(0) \o U32(1) \o U64(offset + 1))
        ELSE <<>>))

kindMinf(kind, offset) ==
  createAtom(T_minf, buildSmhd \o (IF kind = "nostbl" THEN <<>> ELSE kindStbl(kind, offset)))

kindMdia(kind, offset) ==
  createAtom(T_mdia,
       (IF kind = "nomdhd" THEN <<>> ELSE srcMdhd(FALSE))
    \o (IF kind = "nominf" THEN <<>> ELSE kindMinf(kind, offset)))

kindTrak(kind, offset) ==
  IF kind = "empty" THEN createAtom(T_trak, <<>>)
  ELSE createAtom(T_trak,
         createAtom(T_tkhd, Zeros(4))
         \o (IF kind = "nomdia" THEN <<>> ELSE kindMdia(kind, offset)))

RECURSIVE kindTraks(_, _, _)
kindTraks(kinds, k, base) ==
  IF k > Len(kinds) THEN <<>>
  ELSE kindTrak(kinds[k], base + k - 1) \o kindTraks(kinds, k + 1, base)

tracksMoov(kinds, base) == createAtom(T_moov, mvhdAtom \o kindTraks(kinds, 1, base))

tracksMedia == [i \in 1..(MinSamples + MaxTracks) |-> 100 + i]

tracksFile(kinds) ==
  ftypAtom \o tracksMoov(kinds, Len(ftypAtom) + Len(tracksMoov(kinds, 0)) + 8)
           \o createAtom(T_mdat, tracksMedia)

\* Every list of up to MaxTracks tracks of the core kinds, and every track
\* of another kind alone, before and after a track of a core kind.
TrackLists ==
  UNION {[1..n -> CoreKinds] : n \in 0..MaxTracks}
  \cup {<<b>> : b \in BoxKinds}
  \cup {<<b, c>> : b \in BoxKinds, c \in CoreKinds}
  \cup {<<c, b>> : b \in BoxKinds, c \in CoreKinds}

TrackFiles == {tracksFile(kinds) : kinds \in TrackLists} \cup {ftypAtom \o mdatAtom}

(***************************************************************************)
(* The files dumpAtomTree reads: the writers' files before and after a     *)
(* write, files of tracks, and damaged files: a child that runs past its   *)
(* parent, a size field below 8, an atom that runs past the file, an edts  *)
(* box, a meta too short for children and atoms with a 64-bit size.        *)
(***************************************************************************)
overrunMoov == U32(25) \o T_moov \o createAtom(T_free, <<>>) \o U32(12) \o T_udta \o <<0>>
smallSizeMoov == createAtom(T_moov, createAtom(T_free, <<>>) \o U32(4) \o T_udta \o <<0, 0, 0, 0>>)
largeSizeMdat == U32(1) \o T_mdat \o U64(16 + Len(mediaBytes)) \o mediaBytes
edtsMoov ==
  createAtom(T_moov, createAtom(T_trak, createAtom(T_edts, createAtom(T_free, <<1>>) \o <<0>>))
                     \o createAtom(T_meta, U32(0)) \o createAtom(T_free, <<>>))

\* A moov of 25 bytes whose udta child declares 33: its content is longer than
\* moov's and runs over mdat into the free atom after it.
wideChildMoov == U32(25) \o T_moov \o createAtom(T_free, <<>>) \o U32(33) \o T_udta \o <<0>>

DamagedFiles ==
  {ftypAtom \o overrunMoov \o mdatAtom,
   ftypAtom \o wideChildMoov \o mdatAtom \o createAtom(T_free, Zeros(12)),
   ftypAtom \o smallSizeMoov \o mdatAtom,
   ftypAtom \o edtsMoov \o mdatAtom,
   ftypAtom \o U32(64) \o T_moov \o createAtom(T_free, <<>>),
   ftypAtom \o U32(0) \o T_moov \o <<0>>,
   ftypAtom \o createAtom(T_moov, mvhdAtom) \o largeSizeMdat,
   ftypAtom \o createAtom(T_moov, U32(1) \o T_udta \o U64(17) \o <<0>> \o mvhdAtom),
   <<>>}

DumpFiles ==
  InitialFiles
  \cup {writeKaraAtom(f, 1).buf : f \in InitialFiles}
  \cup {tracksFile(<<"audio">>), tracksFile(<<"short", "nostsz">>)}
  \cup DamagedFiles

(***************************************************************************)
(* Inputs of the writers.                                                  *)
(***************************************************************************)
KaraInputs == {1, 22}
KeyInputs == {<<65, 109>>}
NoMetadata == [title |-> <<>>, artist |-> <<>>, album |-> <<>>, year |-> 0,
               genre |-> <<>>, tempo |-> 0]
MetadataInputs ==
  {NoMetadata,
   [NoMetadata EXCEPT !.title = <<65>>],
   [NoMetadata EXCEPT !.title = <<66, 66>>],
   [NoMetadata EXCEPT !.tempo = 120],
   [NoMetadata EXCEPT !.title = <<65>>, !.artist = <<67>>, !.year = 2025]}
TrackInputs ==
  {[kind |-> "number", no |-> 1, of |-> 0, text |-> <<>>],
   [kind |-> "string", no |-> 0, of |-> 0, text |-> <<49, 50>>],
   [kind |-> "object", no |-> 3, of |-> 9, text |-> <<>>],
   [kind |-> "invalid", no |-> 0, of |-> 0, text |-> <<>>]}
PitchInputs ==
  {[valid |-> FALSE, sampleRate |-> 0, data |-> <<>>],
   [valid |-> TRUE, sampleRate |-> 25, data |-> <<[midi |-> 60, cents |-> -5]>>]}
OnsetInputs ==
  {[valid |-> FALSE, times |-> <<>>],
   [valid |-> TRUE, times |-> <<1001>>]}
StemInputs ==
  {[given |-> FALSE, names |-> <<>>],
   [given |-> TRUE, names |-> <<<<86>>>>]}

(***************************************************************************)
(* The state of the writers: the file on disk, the file the run started    *)
(* from, the file before the last call, the last call and the keys it      *)
(* wrote, the atom last written under each key, and whether the last call  *)
(* threw.                                                                  *)
(***************************************************************************)
FreeformKeys == {"kara", "vpch", "kons", "initialkey"}
StandardKeys == {"nam", "ART", "alb", "day", "gen", "tmpo", "trkn"}
AllKeys == FreeformKeys \cup StandardKeys \cup {"stem"}

KeyOfType(type) ==
  IF type = T_nam THEN "nam" ELSE IF type = T_ART THEN "ART"
  ELSE IF type = T_alb THEN "alb" ELSE IF type = T_day THEN "day"
  ELSE IF type = T_gen THEN "gen" ELSE IF type = T_tmpo THEN "tmpo"
  ELSE IF type = T_trkn THEN "trkn" ELSE "other"

TypeOfKey(key) ==
  IF key = "nam" THEN T_nam ELSE IF key = "ART" THEN T_ART
  ELSE IF key = "alb" THEN T_alb ELSE IF key = "day" THEN T_day
  ELSE IF key = "gen" THEN T_gen ELSE IF key = "tmpo" THEN T_tmpo
  ELSE IF key = "trkn" THEN T_trkn ELSE T_freeform

InitWriter ==
  /\ file \in InitialFiles
  /\ orig = file
  /\ prev = file
  /\ lastOp = "none"
  /\ lastKeys = {}
  /\ written = [k \in AllKeys |-> <<>>]
  /\ threw = FALSE
  /\ nWrites = 0

\* One call of a writer: r is its result, puts the atoms it put under their keys.
Call(op, r, puts) ==
  /\ file' = r.buf
  /\ prev' = file
  /\ lastOp' = op
  /\ lastKeys' = IF r.ok THEN DOMAIN puts ELSE {}
  /\ written' = IF r.ok
                THEN [k \in AllKeys |-> IF k \in DOMAIN puts THEN puts[k] ELSE written[k]]
                ELSE written
  /\ threw' = ~r.ok
  /\ nWrites' = nWrites + 1
  /\ UNCHANGED <<orig, extractVars>>

One(key, atom) == [k \in {key} |-> atom]

WriteKaraAtom ==
  \E karaData \in KaraInputs :
    /\ nWrites < MaxWrites
    /\ Call("writeKaraAtom", writeKaraAtom(file, karaData),
            One("kara", createKaraAtom(JSONstringify(karaData))))

WriteVpchAtom ==
  \E pitchData \in PitchInputs :
    /\ nWrites < MaxWrites
    /\ Call("writeVpchAtom", writeVpchAtom(file, pitchData),
            IF pitchData.valid
            THEN One("vpch", createBinaryFreeformAtom(S_com_stems, S_vpch, vpchBinary(pitchData)))
            ELSE <<>>)

WriteKonsAtom ==
  \E onsetsData \in OnsetInputs :
    /\ nWrites < MaxWrites
    /\ Call("writeKonsAtom", writeKonsAtom(file, onsetsData),
            IF onsetsData.valid
            THEN One("kons", createBinaryFreeformAtom(S_com_stems, S_kons,
                                                      konsBinary(onsetsData.times)))
            ELSE <<>>)

AddMusicalKey ==
  \E musicalKey \in KeyInputs :
    /\ nWrites < MaxWrites
    /\ Call("addMusicalKey", addMusicalKey(file, musicalKey),
            One("initialkey", musicalKeyAtom(musicalKey)))

AddStandardMetadata ==
  \E metadata \in MetadataInputs :
    LET atoms == atomsToWrite(metadata)
        keys == {KeyOfType(Slice(atoms[i], 4, 8)) : i \in 1..Len(atoms)}
        atomOf(k) == atoms[CHOOSE i \in 1..Len(atoms) : KeyOfType(Slice(atoms[i], 4, 8)) = k]
    IN /\ nWrites < MaxWrites
       /\ Call("addStandardMetadata", addStandardMetadata(file, metadata),
               [k \in keys |-> atomOf(k)])

AddTrackNumber ==
  \E trackInfo \in TrackInputs :
    /\ nWrites < MaxWrites
    /\ Call("addTrackNumber", addTrackNumber(file, trackInfo),
            IF trackInfo.kind = "invalid" THEN <<>>
            ELSE One("trkn", trknAtom(IF trackInfo.kind = "string"
                                      THEN parseInt(trackInfo.text) ELSE trackInfo.no,
                                      IF trackInfo.kind = "object" THEN trackInfo.of ELSE 0)))

AddNiStemsMetadata ==
  \E stemNames \in StemInputs :
    /\ nWrites < MaxWrites
    /\ Call("addNiStemsMetadata", addNiStemsMetadata(file, stemNames),
            One("stem", stemsMetadataJson(stemNames)))

Init ==
  /\ InitWriter
  /\ src = <<>> /\ out = <<>> /\ xTrack = 0 /\ xDone = FALSE
  /\ xErr = "" /\ res = <<>> /\ xArg = 0

Next ==
  \/ WriteKaraAtom
  \/ WriteVpchAtom
  \/ WriteKonsAtom
  \/ AddMusicalKey
  \/ AddStandardMetadata
  \/ AddTrackNumber
  \/ AddNiStemsMetadata

Spec == Init /\ [][Next]_vars

(***************************************************************************)
(* Files with a meta atom at the top level, after moov and mdat (the file  *)
(* level is one of the places ISO/IEC 14496-12 allows a meta box), and     *)
(* with udta absent, empty or holding the whole path.                      *)
(***************************************************************************)
topMeta == createAtom(T_meta, U32(0) \o metaHdlr \o createAtom(T_ilst, tooAtom))

StrayFiles ==
  {fileOf([mdatFirst |-> mf, udtaFirst |-> uf, kind |-> k]) \o topMeta :
     mf \in BOOLEAN, uf \in BOOLEAN, k \in {"none", "empty", "ilst"}}

InitStray ==
  /\ file \in StrayFiles
  /\ orig = file
  /\ prev = file
  /\ lastOp = "none"
  /\ lastKeys = {}
  /\ written = [k \in AllKeys |-> <<>>]
  /\ threw = FALSE
  /\ nWrites = 0
  /\ src = <<>> /\ out = <<>> /\ xTrack = 0 /\ xDone = FALSE
  /\ xErr = "" /\ res = <<>> /\ xArg = 0

SpecStray == InitStray /\ [][Next]_vars

(***************************************************************************)
(* Two writers on one file at once.  A writer is a sequence of injections  *)
(* (one for writeKaraAtom, addMusicalKey and addNiStemsMetadata, one per   *)
(* atom for addStandardMetadata); each injection awaits fs.readFile, then  *)
(* computes the new file from the buffer it holds and awaits fs.writeFile. *)
(* The read and the write are one step each and nothing locks the file.    *)
(* xArg holds the writers (the injections left, whether a buffer is held,  *)
(* the buffer), res the reads and writes in the order they happened.       *)
(***************************************************************************)
Writers == {"first", "second"}

Injection(fn, arg) == [fn |-> fn, arg |-> arg]

\* The injections of addStandardMetadata: one injectAtomToIlst per atom.
injectionsOf(atoms) == [i \in 1..Len(atoms) |-> Injection("injectAtomToIlst", atoms[i])]

RaceCalls ==
  {<<Injection("injectKaraAtom", JSONstringify(1))>>,
   <<Injection("injectAtomToIlst", musicalKeyAtom(<<65, 109>>))>>,
   injectionsOf(atomsToWrite([NoMetadata EXCEPT !.title = <<65>>, !.artist = <<67>>])),
   <<Injection("injectStemAtom", stemsMetadataJson([given |-> TRUE, names |-> <<<<86>>>>]))>>}

\* The new file an injection computes from the buffer it holds.
inject(injection, data) ==
  IF injection.fn = "injectKaraAtom" THEN injectKaraAtom(data, injection.arg)
  ELSE IF injection.fn = "injectStemAtom" THEN injectStemAtom(data, injection.arg)
  ELSE injectAtomToIlst(data, injection.arg)

\* The files raced on: with and without the udta/meta/ilst path, mdat
\* before or after moov, and a file without moov.
RaceFiles ==
  {fileOf([mdatFirst |-> mf, udtaFirst |-> FALSE, kind |-> k]) :
     mf \in BOOLEAN, k \in {"none", "ilst"}}
  \cup {fileOf([mdatFirst |-> FALSE, udtaFirst |-> FALSE, kind |-> "nomoov"])}

bufferReread(held, onDisk) == onDisk

\* const data = await fs.readFile(filePath): the injection works on the
\* buffer it read, whatever the file holds by the time it writes.
bufferRead(held, onDisk) == held

InitRace ==
  /\ file \in RaceFiles
  /\ orig = file /\ prev = file
  /\ xArg \in [Writers -> {[todo |-> c, holds |-> FALSE, data |-> <<>>] : c \in RaceCalls}]
  /\ res = <<>>
  /\ lastOp = "none" /\ lastKeys = {}
  /\ written = [k \in AllKeys |-> <<>>]
  /\ threw = FALSE /\ nWrites = 0
  /\ src = <<>> /\ out = <<>> /\ xTrack = 0 /\ xDone = FALSE /\ xErr = ""

\* The read of the next injection of a writer completes.
ReadFile ==
  \E w \in Writers :
    /\ xArg[w].todo # <<>> /\ ~xArg[w].holds
    /\ xArg' = [xArg EXCEPT ![w].holds = TRUE, ![w].data = file]
    /\ res' = Append(res, [writer |-> w, event |-> "readFile",
                           injection |-> Head(xArg[w].todo), content |-> file])
    /\ lastOp' = "readFile"
    /\ threw' = FALSE
    /\ UNCHANGED <<file, orig, prev, lastKeys, written, nWrites, src, out, xTrack,
                   xDone, xErr>>

\* The injection computes its file and the write completes; an injection
\* that throws writes nothing and ends its writer.
WriteFile ==
  \E w \in Writers :
    /\ xArg[w].holds
    /\ LET r == inject(Head(xArg[w].todo), bufferRead(xArg[w].data, file))
       IN IF r.ok
          THEN /\ file' = r.buf
               /\ prev' = file
               /\ xArg' = [xArg EXCEPT ![w].todo = Tail(@), ![w].holds = FALSE,
                                       ![w].data = <<>>]
               /\ res' = Append(res, [writer |-> w, event |-> "writeFile",
                                      injection |-> Head(xArg[w].todo), content |-> r.buf])
               /\ lastOp' = "writeFile"
               /\ threw' = FALSE
               /\ nWrites' = nWrites + 1
          ELSE /\ xArg' = [xArg EXCEPT ![w].todo = <<>>, ![w].holds = FALSE,
                                       ![w].data = <<>>]
               /\ lastOp' = "throw"
               /\ threw' = TRUE
               /\ UNCHANGED <<file, prev, res, nWrites>>
    /\ UNCHANGED <<orig, lastKeys, written, src, out, xTrack, xDone, xErr>>

NextRace == ReadFile \/ WriteFile

SpecRace == InitRace /\ [][NextRace]_vars

(***************************************************************************)
(* The chunk map: buildChunkSampleMap on stsc tables of up to MaxEntries   *)
(* entries, in any order of first_chunk, for up to MaxChunks chunks.  With *)
(* an empty table and a chunk to map, stscEntries[0].samplesPerChunk       *)
(* throws a TypeError.                                                     *)
(***************************************************************************)
StscEntries ==
  {[firstChunk |-> f, samplesPerChunk |-> n] : f \in 1..MaxChunks, n \in 1..2}

StscTables == UNION {[1..n -> StscEntries] : n \in 0..MaxEntries}

InitChunkMap ==
  /\ xArg \in {[stscEntries |-> t, totalChunks |-> c] : t \in StscTables, c \in 0..MaxChunks}
  /\ src = <<>> /\ out = <<>> /\ xTrack = 0 /\ xDone = FALSE /\ xErr = "" /\ res = <<>>
  /\ file = <<>> /\ orig = <<>> /\ prev = <<>>
  /\ lastOp = "none" /\ lastKeys = {}
  /\ written = [k \in AllKeys |-> <<>>]
  /\ threw = FALSE /\ nWrites = 0

BuildChunkSampleMap ==
  /\ ~xDone
  /\ threw' = (xArg.totalChunks > 0 /\ xArg.stscEntries = <<>>)
  /\ res' = IF threw' THEN <<>> ELSE buildChunkSampleMap(xArg.stscEntries, xArg.totalChunks)
  /\ xErr' = IF threw'
             THEN "Cannot read properties of undefined (reading 'samplesPerChunk')"
             ELSE ""
  /\ xDone' = TRUE
  /\ lastOp' = "buildChunkSampleMap"
  /\ UNCHANGED <<src, out, xTrack, xArg, file, orig, prev, lastKeys, written, nWrites>>

NextChunkMap == BuildChunkSampleMap

SpecChunkMap == InitChunkMap /\ [][NextChunkMap]_vars

(***************************************************************************)
(* The writers on a file whose stco holds an entry close to 2^32 - 1, as   *)
(* in a file of nearly 4 GiB: the entry lies between two entries that      *)
(* point into the mdat of the model.                                       *)
(***************************************************************************)
bigStco(base, lastByte) ==
  createAtom(T_stco, U32(0) \o U32(3) \o U32(base) \o <<255, 255, 255, lastByte>>
                     \o U32(base + 2))

bigMoov(udtaKind, lastByte, base) ==
  createAtom(T_moov, mvhdAtom \o trakOf(bigStco(base, lastByte)) \o udtaOf(udtaKind))

bigFile(udtaKind, lastByte, mdatFirst) ==
  IF mdatFirst
  THEN ftypAtom \o mdatAtom \o bigMoov(udtaKind, lastByte, Len(ftypAtom) + 8)
  ELSE ftypAtom
       \o bigMoov(udtaKind, lastByte, Len(ftypAtom) + Len(bigMoov(udtaKind, lastByte, 0)) + 8)
       \o mdatAtom

BigFiles ==
  {bigFile(k, b, mf) : k \in {"none", "ilst"}, b \in {0, 240}, mf \in BOOLEAN}

InitOverflow ==
  /\ file \in BigFiles
  /\ orig = file
  /\ prev = file
  /\ lastOp = "none"
  /\ lastKeys = {}
  /\ written = [k \in AllKeys |-> <<>>]
  /\ threw = FALSE
  /\ nWrites = 0
  /\ src = <<>> /\ out = <<>> /\ xTrack = 0 /\ xDone = FALSE
  /\ xErr = "" /\ res = <<>> /\ xArg = 0

SpecOverflow == InitOverflow /\ [][Next]_vars

(***************************************************************************)
(* The tempo writer: calls of addStandardMetadata(file, {tempo: bpm}) with *)
(* the least and greatest tempo, the values around a byte carry, and the   *)
(* common tempo 120.                                                       *)
(***************************************************************************)
TempoInputs == {1, 120, 255, 256, 257, 32768, 65535}

AddTempo ==
  \E bpm \in TempoInputs :
    /\ nWrites < MaxWrites
    /\ file' = addStandardMetadata(file, [NoMetadata EXCEPT !.tempo = bpm]).buf
    /\ threw' = ~addStandardMetadata(file, [NoMetadata EXCEPT !.tempo = bpm]).ok
    /\ prev' = file
    /\ lastOp' = "addStandardMetadata"
    /\ lastKeys' = IF threw' THEN {} ELSE {"tmpo"}
    /\ written' = IF threw' THEN written ELSE [written EXCEPT !["tmpo"] = createBpmAtom(bpm)]
    /\ nWrites' = nWrites + 1
    /\ xArg' = bpm
    /\ UNCHANGED <<orig, src, out, xTrack, xDone, xErr, res>>

NextTempo == AddTempo

SpecTempo == Init /\ [][NextTempo]_vars

(***************************************************************************)
(* The vpch payload: pitch data of up to MaxPitch samples, with values     *)
(* inside and outside the clamped ranges and a missing sample rate (0),    *)
(* encoded as writeVpchAtom encodes it and decoded by the reader's parser. *)
(***************************************************************************)
PitchSamples == {[midi |-> m, cents |-> c] : m \in {-1, 0, 60, 128}, c \in {-51, -50, 7, 51}}

PitchSeqs == UNION {[1..n -> PitchSamples] : n \in 0..MaxPitch}

PitchData ==
  {[valid |-> TRUE, sampleRate |-> sr, data |-> d] :
     sr \in {0, 25, 44100, 2147483647}, d \in PitchSeqs}

InitVpch ==
  /\ xArg \in PitchData
  /\ src = <<>> /\ out = <<>> /\ xTrack = 0 /\ xDone = FALSE /\ xErr = "" /\ res = <<>>
  /\ file = <<>> /\ orig = <<>> /\ prev = <<>>
  /\ lastOp = "none" /\ lastKeys = {}
  /\ written = [k \in AllKeys |-> <<>>]
  /\ threw = FALSE /\ nWrites = 0

\* writeVpchAtom's binaryData for the pitch data.
VpchBinary ==
  /\ lastOp = "none"
  /\ out' = vpchBinary(xArg)
  /\ lastOp' = "vpchBinary"
  /\ UNCHANGED <<src, xTrack, xDone, xErr, res, xArg, writerVarsButOp>>

\* The reader's parser on the payload written.
ParseVpchAtom ==
  /\ lastOp = "vpchBinary"
  /\ res' = parseVpchAtom(out)
  /\ xDone' = TRUE
  /\ lastOp' = "parseVpchAtom"
  /\ UNCHANGED <<src, out, xTrack, xErr, xArg, writerVarsButOp>>

NextVpch == VpchBinary \/ ParseVpchAtom

SpecVpch == InitVpch /\ [][NextVpch]_vars

(***************************************************************************)
(* Payloads as the reader may find them in a file: a version byte 0, 1 or  *)
(* 2, a declared count of up to MaxDeclared entries, and a body of whole   *)
(* entries with or without a partial one at its end, or a header cut       *)
(* short.                                                                  *)
(***************************************************************************)
MaxDeclared == 3

VpchBody == <<60, 7, 0, 206, 127, 50>>
KonsBody == <<0, 0, 3, 232, 0, 0, 7, 208>>

VpchPayloads ==
  {<<v>> \o U32(25) \o U32(n) \o SubSeq(VpchBody, 1, k) :
     v \in 0..2, n \in 0..MaxDeclared, k \in 0..Len(VpchBody)}
  \cup {SubSeq(<<1>> \o U32(25) \o U32(0), 1, k) : k \in 0..8}

KonsPayloads ==
  {<<v>> \o U32(n) \o SubSeq(KonsBody, 1, k) :
     v \in 0..2, n \in 0..MaxDeclared, k \in 0..Len(KonsBody)}
  \cup {SubSeq(<<1>> \o U32(0), 1, k) : k \in 0..4}

InitPayload ==
  /\ xArg \in {[atom |-> "vpch", payload |-> p] : p \in VpchPayloads}
            \cup {[atom |-> "kons", payload |-> p] : p \in KonsPayloads}
  /\ src = <<>> /\ out = <<>> /\ xTrack = 0 /\ xDone = FALSE /\ xErr = "" /\ res = <<>>
  /\ file = <<>> /\ orig = <<>> /\ prev = <<>>
  /\ lastOp = "none" /\ lastKeys = {}
  /\ written = [k \in AllKeys |-> <<>>]
  /\ threw = FALSE /\ nWrites = 0

\* _parseVpchAtom on a vpch payload; it catches what it throws.
ParseVpchPayload ==
  /\ lastOp = "none" /\ xArg.atom = "vpch"
  /\ res' = parseVpchAtom(xArg.payload)
  /\ xDone' = TRUE
  /\ lastOp' = "parseVpchAtom"
  /\ UNCHANGED <<src, out, xTrack, xErr, xArg, writerVarsButOp>>

\* _parseKonsAtom on a kons payload; it catches what it throws.
ParseKonsPayload ==
  /\ lastOp = "none" /\ xArg.atom = "kons"
  /\ res' = parseKonsAtom(xArg.payload)
  /\ xDone' = TRUE
  /\ lastOp' = "parseKonsAtom"
  /\ UNCHANGED <<src, out, xTrack, xErr, xArg, writerVarsButOp>>

NextPayload == ParseVpchPayload \/ ParseKonsPayload

SpecPayload == InitPayload /\ [][NextPayload]_vars

(***************************************************************************)
(* The extractor: one call of extractTrack on a source file; the greatest  *)
(* track index names no track of the file.                                 *)
(***************************************************************************)
TrackIndexes == 0..MaxTracks

InitExtract ==
  /\ src \in SourceFiles
  /\ out = <<>> /\ xTrack = 0 /\ xDone = FALSE /\ xErr = "" /\ res = <<>> /\ xArg = 0
  /\ file = <<>> /\ orig = <<>> /\ prev = <<>>
  /\ lastOp = "none" /\ lastKeys = {}
  /\ written = [k \in AllKeys |-> <<>>]
  /\ threw = FALSE /\ nWrites = 0

ExtractTrack ==
  \E trackIndex \in TrackIndexes :
    /\ ~xDone
    /\ out' = extractTrack(src, trackIndex).buf
    /\ threw' = ~extractTrack(src, trackIndex).ok
    /\ xErr' = IF extractTrack(src, trackIndex).ok THEN ""
               ELSE extractTrack(src, trackIndex).error
    /\ xTrack' = trackIndex
    /\ xDone' = TRUE
    /\ lastOp' = "extractTrack"
    /\ UNCHANGED <<src, res, xArg, file, orig, prev, lastKeys, written, nWrites>>

NextExtract == ExtractTrack

SpecExtract == InitExtract /\ [][NextExtract]_vars

(***************************************************************************)
(* The operations on a file of several tracks: one call of extractTrack,   *)
(* extractAllTracks, getTrackCount or getTrackInfo.                        *)
(***************************************************************************)
InitTracks ==
  /\ src \in TrackFiles
  /\ out = <<>> /\ xTrack = 0 /\ xDone = FALSE /\ xErr = "" /\ res = <<>> /\ xArg = 0
  /\ file = <<>> /\ orig = <<>> /\ prev = <<>>
  /\ lastOp = "none" /\ lastKeys = {}
  /\ written = [k \in AllKeys |-> <<>>]
  /\ threw = FALSE /\ nWrites = 0

\* One call of a reading operation whose result r is [ok, value, error].
Returned(op, r) ==
  /\ res' = r.value
  /\ threw' = ~r.ok
  /\ xErr' = IF r.ok THEN "" ELSE r.error
  /\ xDone' = TRUE
  /\ lastOp' = op
  /\ UNCHANGED <<src, out, xTrack, xArg, file, orig, prev, lastKeys, written, nWrites>>

ExtractAllTracks ==
  /\ ~xDone
  /\ Returned("extractAllTracks", extractAllTracks(src))

GetTrackCount ==
  /\ ~xDone
  /\ Returned("getTrackCount", getTrackCount(src))

GetTrackInfo ==
  /\ ~xDone
  /\ Returned("getTrackInfo", getTrackInfo(src))

\* The sample table of a track the file holds, as extractTrack, extractAllTracks
\* and getTrackInfo decode it.
ParseSampleTableFromTrak ==
  \E trackIndex \in TrackIndexes :
    /\ ~xDone
    /\ findTrack(src, trackIndex) # NoAtom
    /\ res' = parseSampleTableFromTrak(src, findTrack(src, trackIndex))
    /\ threw' = ~res'.ok
    /\ xErr' = IF res'.ok THEN "" ELSE res'.error
    /\ xTrack' = trackIndex
    /\ xDone' = TRUE
    /\ lastOp' = "parseSampleTableFromTrak"
    /\ UNCHANGED <<src, out, xArg, file, orig, prev, lastKeys, written, nWrites>>

NextTracks ==
  \/ ExtractTrack
  \/ ExtractAllTracks
  \/ GetTrackCount
  \/ GetTrackInfo
  \/ ParseSampleTableFromTrak

SpecTracks == InitTracks /\ [][NextTracks]_vars

(***************************************************************************)
(* The atom tree: one call of dumpAtomTree with a maxDepth up to MaxDepth. *)
(***************************************************************************)
InitDump ==
  /\ src \in DumpFiles
  /\ out = <<>> /\ xTrack = 0 /\ xDone = FALSE /\ xErr = "" /\ res = <<>> /\ xArg = 0
  /\ file = <<>> /\ orig = <<>> /\ prev = <<>>
  /\ lastOp = "none" /\ lastKeys = {}
  /\ written = [k \in AllKeys |-> <<>>]
  /\ threw = FALSE /\ nWrites = 0

DumpAtomTree ==
  \E maxDepth \in 0..MaxDepth :
    /\ ~xDone
    /\ res' = dumpAtomTree(src, maxDepth)
    /\ xArg' = maxDepth
    /\ threw' = FALSE
    /\ xDone' = TRUE
    /\ lastOp' = "dumpAtomTree"
    /\ UNCHANGED <<src, out, xTrack, xErr, file, orig, prev, lastKeys, written, nWrites>>

NextDump == DumpAtomTree

SpecDump == InitDump /\ [][NextDump]_vars

(***************************************************************************)
(* The atom parsers on the windows their callers pass: the whole file      *)
(* (no maxLength), the content of moov and the content of each child of    *)
(* moov.  parseMP4Atoms, parseAtoms and dumpAtomTree have no throw         *)
(* statement and every read lies inside the buffer: no call throws.        *)
(***************************************************************************)
contentWindow(a) == [offset |-> a.offset + 8, maxLength |-> a.size - 8, top |-> FALSE]

moovWindows(buffer, moov) ==
  IF moov = NoAtom THEN {}
  ELSE {contentWindow(moov)}
       \cup {contentWindow(parseMP4Atoms(buffer, moov.offset + 8, moov.size - 8)[i]) :
               i \in 1..Len(parseMP4Atoms(buffer, moov.offset + 8, moov.size - 8))}

WindowsOf(buffer) ==
  {[offset |-> 0, maxLength |-> Null, top |-> TRUE]}
  \cup moovWindows(buffer, FindType(parseMP4Atoms(buffer, 0, Null), T_moov))

Parsed(op, window, atoms) ==
  /\ ~xDone
  /\ res' = atoms
  /\ xArg' = window
  /\ threw' = FALSE
  /\ xDone' = TRUE
  /\ lastOp' = op
  /\ UNCHANGED <<src, out, xTrack, xErr, file, orig, prev, lastKeys, written, nWrites>>

ParseMP4Atoms ==
  \E w \in WindowsOf(src) :
    Parsed("parseMP4Atoms", w, parseMP4Atoms(src, w.offset, w.maxLength))

ParseAtoms ==
  \E w \in WindowsOf(src) :
    Parsed("parseAtoms", w, parseAtoms(src, w.offset, w.maxLength))

NextParse == ParseMP4Atoms \/ ParseAtoms \/ DumpAtomTree

SpecParse == InitDump /\ [][NextParse]_vars

(***************************************************************************)
(* The reference reading of a file, used to state the properties: an atom  *)
(* window is read strictly (whole atoms tiling the window exactly), and a  *)
(* container is looked up among the children of its parent only.           *)
(***************************************************************************)
RECURSIVE RefKidsLoop(_, _, _, _)
RefKidsLoop(buf, pos, end, acc) ==
  IF pos = end THEN [ok |-> TRUE, atoms |-> acc]
  ELSE IF pos + 8 > end THEN [ok |-> FALSE, atoms |-> acc]
  ELSE IF RdU32(buf, pos) < 8 \/ pos + RdU32(buf, pos) > end
  THEN [ok |-> FALSE, atoms |-> acc]
  ELSE RefKidsLoop(buf, pos + RdU32(buf, pos), end,
                   Append(acc, [type |-> Slice(buf, pos + 4, pos + 8), offset |-> pos,
                                size |-> RdU32(buf, pos)]))

\* The atoms tiling [start, end) of buf; ok is FALSE when the window is not a
\* sequence of whole atoms (atoms then holds those read before the fault).
RefKids(buf, start, end) ==
  IF start > end \/ end > Len(buf) THEN [ok |-> FALSE, atoms |-> <<>>]
  ELSE RefKidsLoop(buf, start, end, <<>>)

\* The children of atom a, whose content starts skip bytes after its header.
RefChildren(buf, a, skip) == RefKids(buf, a.offset + 8 + skip, a.offset + a.size)

RefOfType(atoms, type) == SelectSeq(atoms, LAMBDA a : a.type = type)

RefTop(buf) == RefKids(buf, 0, Len(buf)).atoms

\* The atoms reached from the atoms `from` by one step down to children of `type`.
RECURSIVE RefDownAll(_, _, _, _)
RefDownAll(buf, from, type, skip) ==
  IF from = <<>> THEN <<>>
  ELSE RefOfType(RefChildren(buf, Head(from), skip).atoms, type)
       \o RefDownAll(buf, Tail(from), type, skip)

RefMoovs(buf) == RefOfType(RefTop(buf), T_moov)
RefUdtas(buf) == RefDownAll(buf, RefMoovs(buf), T_udta, 0)
RefMetas(buf) == RefDownAll(buf, RefUdtas(buf), T_meta, 0)
RefIlsts(buf) == RefDownAll(buf, RefMetas(buf), T_ilst, 4)
RefIlstKids(buf) ==
  IF RefIlsts(buf) = <<>> THEN <<>> ELSE RefChildren(buf, RefIlsts(buf)[1], 0).atoms
RefStbls(buf) ==
  RefDownAll(buf, RefDownAll(buf, RefDownAll(buf, RefDownAll(buf, RefMoovs(buf),
    T_trak, 0), T_mdia, 0), T_minf, 0), T_stbl, 0)

\* The bytes of an atom.
RefBytes(buf, a) == Slice(buf, a.offset, a.offset + a.size)

RECURSIVE RefEntriesOf(_, _, _, _)
\* The entries i.. of the chunk offset table t (stco: width 4, co64: width 8).
RefEntriesOf(buf, t, width, i) ==
  IF i >= RdU32(buf, t.offset + 12) THEN <<>>
  ELSE <<RdEntry(buf, t.offset + 16 + i * width, width)>>
       \o RefEntriesOf(buf, t, width, i + 1)

RECURSIVE RefTableEntries(_, _)
RefTableEntries(buf, tables) ==
  IF tables = <<>> THEN <<>>
  ELSE (IF Head(tables).type = T_stco THEN RefEntriesOf(buf, Head(tables), 4, 0)
        ELSE IF Head(tables).type = T_co64 THEN RefEntriesOf(buf, Head(tables), 8, 0)
        ELSE <<>>)
       \o RefTableEntries(buf, Tail(tables))

RECURSIVE RefAllKids(_, _)
RefAllKids(buf, from) ==
  IF from = <<>> THEN <<>>
  ELSE RefChildren(buf, Head(from), 0).atoms \o RefAllKids(buf, Tail(from))

\* Every chunk offset of the file, track by track, entry by entry.
ChunkEntries(buf) == RefTableEntries(buf, RefAllKids(buf, RefStbls(buf)))

\* The length of the chunks of the initial files, in the order of ChunkEntries.
chunkLengths == <<2, 1, 2>>

\* Entry i of buf addresses the bytes that entry i of orig addressed.
SameMedia(buf, i) ==
  /\ i <= Len(ChunkEntries(buf))
  /\ Slice(buf, ChunkEntries(buf)[i], ChunkEntries(buf)[i] + chunkLengths[i])
     = Slice(orig, ChunkEntries(orig)[i], ChunkEntries(orig)[i] + chunkLengths[i])

\* C1: after any sequence of metadata writes, in either layout and whether or
\* not udta, meta and ilst existed, every stco and co64 entry addresses the
\* same media bytes as in the original file.
C1_EntriesAddressSameMedia ==
  \A i \in 1..Len(ChunkEntries(orig)) : SameMedia(file, i)

\* The size of moov and its end offset in a file that has one.
MoovSize(buf) == RefMoovs(buf)[1].size
MoovEnd(buf) == RefMoovs(buf)[1].offset + RefMoovs(buf)[1].size

\* The last call was one write of one atom and did not throw.
SingleWrite == nWrites > 0 /\ ~threw /\ Cardinality(lastKeys) = 1

\* C2: a single write that changes the size of moov by a net D shifts every
\* entry that was at or past the original moov end by exactly D and leaves
\* every entry below it unchanged.
C2_EntriesShiftByNetDelta ==
  (SingleWrite /\ RefMoovs(prev) # <<>>) =>
    /\ Len(ChunkEntries(file)) = Len(ChunkEntries(prev))
    /\ \A i \in 1..Len(ChunkEntries(prev)) :
         ChunkEntries(file)[i] =
           IF ChunkEntries(prev)[i] >= MoovEnd(prev)
           THEN ChunkEntries(prev)[i] + (MoovSize(file) - MoovSize(prev))
           ELSE ChunkEntries(prev)[i]

\* Every atom of `atoms` has whole child atoms as its content (after skip bytes).
AllTile(buf, atoms, skip) ==
  \A i \in 1..Len(atoms) : RefChildren(buf, atoms[i], skip).ok

\* C3: after any write, and any sequence of writes, every container on the
\* path moov/udta/meta/ilst has a declared size equal to its header plus the
\* sizes of its children (plus 4 for meta): its content is exactly a sequence
\* of whole child atoms.
C3_PathContainersTile ==
  /\ RefKids(file, 0, Len(file)).ok
  /\ AllTile(file, RefMoovs(file), 0)
  /\ AllTile(file, RefUdtas(file), 0)
  /\ AllTile(file, RefMetas(file), 4)
  /\ AllTile(file, RefIlsts(file), 0)

\* The key of an ilst child given as its bytes: the four-byte type, and for a
\* ---- atom also the contents of its mean and name children.
RefKeyPart(bytes, type) ==
  IF RefOfType(RefKids(bytes, 8, Len(bytes)).atoms, type) = <<>> THEN <<>>
  ELSE Slice(bytes, RefOfType(RefKids(bytes, 8, Len(bytes)).atoms, type)[1].offset + 12,
             RefOfType(RefKids(bytes, 8, Len(bytes)).atoms, type)[1].offset
             + RefOfType(RefKids(bytes, 8, Len(bytes)).atoms, type)[1].size)

RefAtomKey(bytes) ==
  IF Slice(bytes, 4, 8) = T_freeform
  THEN <<T_freeform, RefKeyPart(bytes, T_mean), RefKeyPart(bytes, T_name)>>
  ELSE <<Slice(bytes, 4, 8)>>

RECURSIVE RefBytesOfAll(_, _)
RefBytesOfAll(buf, atoms) ==
  IF atoms = <<>> THEN <<>>
  ELSE <<RefBytes(buf, Head(atoms))>> \o RefBytesOfAll(buf, Tail(atoms))

\* The children of every ilst of the file, as their bytes, in file order.
IlstChildBytes(buf) == RefBytesOfAll(buf, RefAllKids(buf, RefIlsts(buf)))

\* The children of the (first) ilst of the file, as their bytes.
FirstIlstChildBytes(buf) == RefBytesOfAll(buf, RefIlstKids(buf))

CountKey(children, key) ==
  Cardinality({i \in 1..Len(children) : RefAtomKey(children[i]) = key})

OnlyWritten(keys) == \A k \in AllKeys \ keys : written[k] = <<>>

\* C4: after any sequence of free-form writes, ilst has at most one ----
\* child for each (mean, name) key, and for every key that was written that
\* child carries the payload of the most recent write of the key.  Stated for
\* the files whose ilst held a child from the start, where no container is
\* created and none is empty.
C4_FreeformUniqueAndLatest ==
  (OnlyWritten(FreeformKeys) /\ ~threw /\ RefIlstKids(orig) # <<>>) =>
    /\ \A i, j \in 1..Len(IlstChildBytes(file)) :
         (i # j /\ Slice(IlstChildBytes(file)[i], 4, 8) = T_freeform)
           => RefAtomKey(IlstChildBytes(file)[i]) # RefAtomKey(IlstChildBytes(file)[j])
    /\ \A k \in FreeformKeys :
         written[k] # <<>> =>
           \E i \in 1..Len(IlstChildBytes(file)) : IlstChildBytes(file)[i] = written[k]

\* The children whose key differs from the key of the atom just written.
OtherChildren(children, atom) ==
  SelectSeq(children, LAMBDA c : RefAtomKey(c) # RefAtomKey(atom))

LastAtom == written[CHOOSE k \in lastKeys : TRUE]

\* C5: a write of an ilst atom with key K leaves every child of ilst whose key
\* differs from K present, byte-identical and in the same relative order; a
\* ---- child with a key other than com.stems:kara survives writeKaraAtom.
C5_OtherChildrenKept ==
  (SingleWrite /\ lastKeys # {"stem"} /\ RefIlsts(prev) # <<>>) =>
    OtherChildren(FirstIlstChildBytes(file), LastAtom)
      = OtherChildren(FirstIlstChildBytes(prev), LastAtom)

\* C6: after any sequence of writes of standard atoms, ilst holds exactly one
\* child of each written type, carrying the most recently written value.
C6_StandardUniqueAndLatest ==
  (OnlyWritten(StandardKeys) /\ ~threw) =>
    \A k \in StandardKeys :
      written[k] # <<>> =>
        /\ CountKey(IlstChildBytes(file), RefAtomKey(written[k])) = 1
        /\ \E i \in 1..Len(IlstChildBytes(file)) : IlstChildBytes(file)[i] = written[k]

\* The files whose moov lacks udta, or whose udta lacks meta, or whose meta
\* lacks ilst.
LacksChain(buf) == RefMoovs(buf) # <<>> /\ RefIlsts(buf) = <<>>

\* meta m starts with a zero version/flags word followed by an hdlr atom of
\* handler type mdir.
MetaWellFormed(buf, m) ==
  /\ Slice(buf, m.offset + 8, m.offset + 12) = <<0, 0, 0, 0>>
  /\ Slice(buf, m.offset + 16, m.offset + 20) = T_hdlr
  /\ Slice(buf, m.offset + 28, m.offset + 32) = <<109, 100, 105, 114>>

\* Atom `atom` is a child of an ilst that is a child of meta m.
InIlstOf(buf, m, atom) ==
  \E i \in 1..Len(RefOfType(RefChildren(buf, m, 4).atoms, T_ilst)) :
    \E j \in 1..Len(RefChildren(buf, RefOfType(RefChildren(buf, m, 4).atoms, T_ilst)[i],
                                0).atoms) :
      RefBytes(buf, RefChildren(buf, RefOfType(RefChildren(buf, m, 4).atoms, T_ilst)[i],
                                0).atoms[j]) = atom

\* C7: every ilst write, writeKaraAtom included, on a file that lacks udta,
\* meta or ilst yields moov > udta > meta (zero version/flags, hdlr mdir) >
\* ilst > the written atom.
C7_ChainCreated ==
  (SingleWrite /\ lastKeys # {"stem"} /\ LacksChain(prev)) =>
    \E i \in 1..Len(RefMetas(file)) :
      /\ MetaWellFormed(file, RefMetas(file)[i])
      /\ InIlstOf(file, RefMetas(file)[i], LastAtom)

\* The stem children of the udta atoms of moov.
StemAtoms(buf) == RefDownAll(buf, RefUdtas(buf), T_stem, 0)

\* C8: after one or more addNiStemsMetadata calls, moov/udta has exactly one
\* stem child and its body is the JSON of the most recent call.
C8_OneStemLatest ==
  (OnlyWritten({"stem"}) /\ written["stem"] # <<>> /\ ~threw) =>
    /\ Len(StemAtoms(file)) = 1
    /\ Slice(file, StemAtoms(file)[1].offset + 8,
             StemAtoms(file)[1].offset + StemAtoms(file)[1].size) = written["stem"]

(***************************************************************************)
(* The reference reading of the sample tables of a track, and of the       *)
(* output of extractTrack.                                                 *)
(***************************************************************************)
RefTraks(buf) == RefDownAll(buf, RefMoovs(buf), T_trak, 0)

\* The children of the stbl of track trackIndex (0-based).
RefStblKids(buf, trackIndex) ==
  RefAllKids(buf,
    RefDownAll(buf, RefDownAll(buf, RefDownAll(buf, <<RefTraks(buf)[trackIndex + 1]>>,
      T_mdia, 0), T_minf, 0), T_stbl, 0))

RefTable(buf, trackIndex, type) == RefOfType(RefStblKids(buf, trackIndex), type)[1]

RefChunkOffsets(buf, trackIndex) == RefTableEntries(buf, RefStblKids(buf, trackIndex))

\* The size of every sample, in sample order.
RefSampleSizes(buf, trackIndex) ==
  LET z == RefTable(buf, trackIndex, T_stsz)
  IN IF RdU32(buf, z.offset + 12) > 0
     THEN [i \in 1..RdU32(buf, z.offset + 16) |-> RdU32(buf, z.offset + 12)]
     ELSE [i \in 1..RdU32(buf, z.offset + 16) |-> RdU32(buf, z.offset + 20 + 4 * (i - 1))]

\* samples_per_chunk of chunk c (1-based): that of the stsc entry with the
\* greatest first_chunk not above c.
RefSamplesPerChunk(buf, trackIndex, c) ==
  LET s == RefTable(buf, trackIndex, T_stsc)
      first(e) == RdU32(buf, s.offset + 16 + 12 * (e - 1))
      e0 == CHOOSE e \in 1..RdU32(buf, s.offset + 12) :
              /\ first(e) <= c
              /\ \A f \in 1..RdU32(buf, s.offset + 12) : first(f) <= c => first(f) <= first(e)
  IN RdU32(buf, s.offset + 16 + 12 * (e0 - 1) + 4)

RECURSIVE RefSamplesBefore(_, _, _)
\* The number of samples in the chunks before chunk c.
RefSamplesBefore(buf, trackIndex, c) ==
  IF c = 1 THEN 0
  ELSE RefSamplesBefore(buf, trackIndex, c - 1) + RefSamplesPerChunk(buf, trackIndex, c - 1)

\* The bytes of chunk c: its samples, one after the other from the chunk's offset.
RefChunkBytes(buf, trackIndex, c) ==
  LET lo == RefSamplesBefore(buf, trackIndex, c)
      hi == lo + RefSamplesPerChunk(buf, trackIndex, c)
      len == sumTo(RefSampleSizes(buf, trackIndex), hi)
             - sumTo(RefSampleSizes(buf, trackIndex), lo)
  IN Slice(buf, RefChunkOffsets(buf, trackIndex)[c],
           RefChunkOffsets(buf, trackIndex)[c] + len)

RECURSIVE RefTrackBytes(_, _, _)
\* The samples of the track, chunk by chunk from chunk c on.
RefTrackBytes(buf, trackIndex, c) ==
  IF c > Len(RefChunkOffsets(buf, trackIndex)) THEN <<>>
  ELSE RefChunkBytes(buf, trackIndex, c) \o RefTrackBytes(buf, trackIndex, c + 1)

\* The payload of the first mdat of a file.
MdatPayload(buf) ==
  Slice(buf, RefOfType(RefTop(buf), T_mdat)[1].offset + 8,
        RefOfType(RefTop(buf), T_mdat)[1].offset + RefOfType(RefTop(buf), T_mdat)[1].size)

Extracted == xDone /\ ~threw

\* C9: the mdat payload of the output of extractTrack is the concatenation,
\* chunk by chunk and sample by sample, of the track's sample bytes read from
\* the source at each chunk's offset, and its length is the sum of the stsz
\* sample sizes (sample_count times the fixed size for a fixed-size table).
C9_PayloadIsTrackSamples ==
  Extracted =>
    /\ RefOfType(RefTop(out), T_mdat) # <<>>
    /\ MdatPayload(out) = RefTrackBytes(src, xTrack, 1)
    /\ Len(MdatPayload(out))
       = sumTo(RefSampleSizes(src, xTrack), Len(RefSampleSizes(src, xTrack)))

\* A track of three samples of sizes 1, 2, 1 in chunks of 1 and 2 samples, one
\* byte apart, has been extracted: 201, then 202 203 204.
C9_Witness ==
  /\ Extracted /\ xTrack = 0
  /\ RefSampleSizes(src, 0) = <<1, 2, 1>>
  /\ RdU32(src, RefTable(src, 0, T_stsc).offset + 12) = 2
  /\ RefSamplesPerChunk(src, 0, 1) = 1 /\ RefSamplesPerChunk(src, 0, 2) = 2
  /\ RefChunkOffsets(src, 0)[2] > RefChunkOffsets(src, 0)[1] + 1
  /\ MdatPayload(out) = <<201, 202, 203, 204>>

RECURSIVE RefTypes(_)
RefTypes(atoms) == IF atoms = <<>> THEN <<>> ELSE <<Head(atoms).type>> \o RefTypes(Tail(atoms))

\* C10: the output of extractTrack is ftyp (major brand 'M4A '), moov, mdat;
\* its moov holds exactly one trak, whose stbl has the source stsd verbatim,
\* an stsz with the sample count and sizes of the source track, and the
\* single stsc entry (1, source sample count, 1).
C10_OutputShape ==
  Extracted =>
    /\ RefKids(out, 0, Len(out)).ok
    /\ RefTypes(RefTop(out)) = <<T_ftyp, T_moov, T_mdat>>
    /\ Slice(out, 8, 12) = <<77, 52, 65, 32>>
    /\ RefChildren(out, RefMoovs(out)[1], 0).ok
    /\ Len(RefTraks(out)) = 1
    /\ RefBytes(out, RefTable(out, 0, T_stsd)) = RefBytes(src, RefTable(src, xTrack, T_stsd))
    /\ RefSampleSizes(out, 0) = RefSampleSizes(src, xTrack)
    /\ Slice(out, RefTable(out, 0, T_stsc).offset + 8,
             RefTable(out, 0, T_stsc).offset + RefTable(out, 0, T_stsc).size)
       = U32(0) \o U32(1) \o U32(1) \o U32(Len(RefSampleSizes(src, xTrack))) \o U32(1)

\* A track of three samples in three chunks has been extracted into one
\* chunk of three samples.
C10_Witness ==
  /\ Extracted /\ xTrack = 0
  /\ Len(RefChunkOffsets(src, 0)) = 3
  /\ Len(RefSampleSizes(src, 0)) = 3
  /\ RefTypes(RefTop(out)) = <<T_ftyp, T_moov, T_mdat>>
  /\ RdU32(out, RefTable(out, 0, T_stsc).offset + 20) = 3

\* The stco and the moov of the output, and the moov as it is built before
\* the chunk offset is known, from the sample table of the source track.
OutStco == RefTable(out, 0, T_stco)
OutMoov == RefMoovs(out)[1]
SrcTable == parseSampleTableFromTrak(src, findTrack(src, xTrack))
MoovBeforePatch ==
  buildMoov([audioData |-> <<>>, stsd |-> SrcTable.stsd,
             sampleSizes |-> SrcTable.sampleSizes,
             sttsEntries |-> SrcTable.sttsEntries, mdhd |-> SrcTable.mdhd])

\* C18: the single stco entry of extractTrack's output is ftyp.size +
\* moov.size + 8, the offset of the first byte of the mdat payload in the
\* output, and the moov of the output differs from the moov built before the
\* patch in the 4 bytes of that entry only.
C18_ChunkOffsetPatched ==
  Extracted =>
    /\ OutStco.size = 20
    /\ RdU32(out, OutStco.offset + 12) = 1
    /\ RdU32(out, OutStco.offset + 16) = RefTop(out)[1].size + OutMoov.size + 8
    /\ RdU32(out, OutStco.offset + 16) = RefTop(out)[3].offset + 8
    /\ RefTop(out)[3].type = T_mdat
    /\ WrU32(RefBytes(out, OutMoov), OutStco.offset - OutMoov.offset + 16, 0)
         = WrU32(MoovBeforePatch, OutStco.offset - OutMoov.offset + 16, 0)

\* A track of variable sample sizes and without stts has been extracted: the
\* entry points at the first sample, right after the mdat header.
C18_Witness ==
  /\ Extracted /\ xTrack = 0
  /\ RefOfType(RefStblKids(src, 0), T_stts) = <<>>
  /\ RefSampleSizes(src, 0) = <<1, 2, 1>>
  /\ RdU32(out, OutStco.offset + 16) = Len(out) - 4
  /\ out[RdU32(out, OutStco.offset + 16) + 1] = 201

(***************************************************************************)
(* Properties of the operations on a file of several tracks.               *)
(***************************************************************************)
\* C11: extractTrack(file, i) fails with the track-not-found error and returns
\* no buffer exactly when i is at least the number of trak children of moov.
C11_TrackNotFoundIffOutOfRange ==
  lastOp = "extractTrack" =>
    ((xTrack >= Len(RefTraks(src)))
       <=> (threw /\ xErr = "Track not found in file" /\ out = <<>>))

\* The sample count the stsz of track i declares.
RefSampleCount(buf, i) == RdU32(buf, RefTable(buf, i, T_stsz).offset + 16)

\* What extractAllTracks owes for track i: the buffer extractTrack gives for
\* it when that call succeeds and the track has at least 100 samples.
OwedTrack(i) ==
  IF extractTrack(src, i).ok /\ RefSampleCount(src, i) >= 100
  THEN <<extractTrack(src, i).buf>>
  ELSE <<>>

RECURSIVE OwedTracks(_)
OwedTracks(i) ==
  IF i >= Len(RefTraks(src)) THEN <<>> ELSE OwedTrack(i) \o OwedTracks(i + 1)

\* C12: extractAllTracks returns, in source track order, one extracted buffer
\* for each trak that decodes and has at least 100 samples; a trak with fewer
\* samples, or whose decoding or extraction throws, is omitted without
\* aborting the call or changing the buffers of the other tracks.
C12_AllTracksFiltered ==
  (lastOp = "extractAllTracks" /\ RefMoovs(src) # <<>>) =>
    /\ ~threw
    /\ res = OwedTracks(0)

\* extractAllTracks on a file of two tracks, the first of 99 samples: the one
\* buffer returned holds the samples of the second track, which start with
\* the second byte of the media.
C12_Witness ==
  /\ lastOp = "extractAllTracks" /\ ~threw
  /\ Len(RefTraks(src)) = 2
  /\ extractTrack(src, 0).ok /\ RefSampleCount(src, 0) = 99
  /\ Len(res) = 1
  /\ Len(MdatPayload(res[1])) = 100
  /\ MdatPayload(res[1])[1] = 102

\* The children of track i, of its mdia and of its minf, read strictly.
RefTrakKids(buf, i) == RefAllKids(buf, <<RefTraks(buf)[i + 1]>>)
RefMdiaKids(buf, i) == RefAllKids(buf, RefOfType(RefTrakKids(buf, i), T_mdia))
RefMinfKids(buf, i) == RefAllKids(buf, RefOfType(RefMdiaKids(buf, i), T_minf))

\* Track i has every box its sample table is read from.
RefDecodable(buf, i) ==
  /\ RefOfType(RefTrakKids(buf, i), T_mdia) # <<>>
  /\ RefOfType(RefMdiaKids(buf, i), T_mdhd) # <<>>
  /\ RefOfType(RefMdiaKids(buf, i), T_minf) # <<>>
  /\ RefOfType(RefMinfKids(buf, i), T_stbl) # <<>>
  /\ \A t \in {T_stsz, T_stsc, T_stsd} : RefOfType(RefStblKids(buf, i), t) # <<>>
  /\ \E t \in {T_stco, T_co64} : RefOfType(RefStblKids(buf, i), t) # <<>>

\* C13: getTrackInfo returns exactly one entry per trak child of moov, in
\* order, entry i holding index i, so that its length is what getTrackCount
\* returns; a trak that cannot be decoded yields an entry of index and error
\* message and keeps no other entry from being returned.
C13_OneEntryPerTrak ==
  (lastOp = "getTrackInfo" /\ RefMoovs(src) # <<>>) =>
    /\ ~threw
    /\ Len(res) = getTrackCount(src).value
    /\ Len(res) = Len(RefTraks(src))
    /\ \A i \in 1..Len(res) :
         /\ res[i].index = i - 1
         /\ RefDecodable(src, i - 1) =>
              /\ DOMAIN res[i] = {"index", "sampleCount", "duration", "timescale"}
              /\ res[i].sampleCount = RefSampleCount(src, i - 1)
         /\ ~RefDecodable(src, i - 1) =>
              /\ DOMAIN res[i] = {"index", "error"}
              /\ res[i].error # ""

\* The atoms of a tree with their nesting depth and the content range of
\* their parent (the file for the atoms of depth 0).
RECURSIVE TreeNodes(_, _, _, _)
TreeNodes(atoms, depth, from, to) ==
  UNION {{[atom |-> atoms[i], depth |-> depth, from |-> from, to |-> to]}
         \cup (IF "children" \in DOMAIN atoms[i]
               THEN TreeNodes(atoms[i].children, depth + 1,
                              atoms[i].offset + (IF atoms[i].type = T_meta THEN 12 ELSE 8),
                              atoms[i].offset + atoms[i].size)
               ELSE {})
         : i \in 1..Len(atoms)}

DumpNodes == TreeNodes(res, 0, 0, Len(src))

NamedContainers ==
  {T_moov, T_trak, T_mdia, T_minf, T_stbl, T_udta, T_meta, T_ilst, T_edts, T_freeform}

\* C14: dumpAtomTree attaches a children list to an atom only if its type is
\* one of moov, trak, mdia, minf, stbl, udta, meta, ilst, edts, ---- and its
\* depth is below maxDepth: no atom deeper than maxDepth is reported, none
\* has children when maxDepth is 0, and the children of meta are read from
\* 4 bytes after its header (from the header's end for the other types).
C14_ChildrenOnlyOfContainersAboveDepth ==
  lastOp = "dumpAtomTree" =>
    \A n \in DumpNodes :
      /\ n.depth <= xArg
      /\ "children" \in DOMAIN n.atom =>
           /\ n.atom.type \in NamedContainers
           /\ n.depth < xArg
           /\ n.atom.children # <<>> =>
                n.atom.children[1].offset =
                  n.atom.offset + (IF n.atom.type = T_meta THEN 12 ELSE 8)

C14_Witness ==
  /\ lastOp = "dumpAtomTree" /\ xArg = 3
  /\ \E n \in DumpNodes :
       /\ n.atom.type = T_meta /\ n.depth = 2
       /\ "children" \in DOMAIN n.atom
       /\ Len(n.atom.children) = 2
       /\ n.atom.children[1].offset = n.atom.offset + 12
       /\ n.atom.children[2].type = T_ilst
       /\ "children" \notin DOMAIN n.atom.children[2]
       /\ n.atom.children[2].size > 8

\* C15: every atom dumpAtomTree reports has a type of 4 characters, a size of
\* at least 8 and an offset of at least 0, and lies within the content range
\* of its parent (within the file at depth 0); siblings come in increasing
\* offset order and do not overlap.
C15_AtomsWithinParent ==
  lastOp = "dumpAtomTree" =>
    /\ \A n \in DumpNodes :
         /\ Len(n.atom.type) = 4 /\ n.atom.size >= 8 /\ n.atom.offset >= 0
         /\ n.from <= n.atom.offset /\ n.atom.offset + n.atom.size <= n.to
         /\ "children" \in DOMAIN n.atom =>
              \A i \in 1..(Len(n.atom.children) - 1) :
                n.atom.children[i].offset + n.atom.children[i].size
                  <= n.atom.children[i + 1].offset
    /\ \A i \in 1..(Len(res) - 1) : res[i].offset + res[i].size <= res[i + 1].offset

\* The tmpo children of ilst in the file on disk.
TmpoAtoms == RefOfType(RefIlstKids(file), T_tmpo)

\* C16: for every tempo bpm in 1..65535, addStandardMetadata(file, {tempo:
\* bpm}) on a file with a moov leaves ilst with exactly one tmpo child, whose
\* data sub-atom has type code 21, locale 0 and the 2 bytes of bpm, big-endian.
C16_TempoAtom ==
  (lastOp = "addStandardMetadata" /\ xArg \in 1..65535 /\ RefMoovs(prev) # <<>>) =>
    /\ ~threw
    /\ Len(TmpoAtoms) = 1
    /\ RefBytes(file, TmpoAtoms[1]) =
         <<0, 0, 0, 26>> \o T_tmpo \o <<0, 0, 0, 18>> \o T_data
         \o <<0, 0, 0, 21>> \o <<0, 0, 0, 0>> \o <<xArg \div 256, xArg % 256>>

\* The value a sample field is stored as: held to [lo, hi].
RefHeld(lo, hi, v) == IF v < lo THEN lo ELSE IF v > hi THEN hi ELSE v

\* The rate the payload carries: the rate given, 25 when none is given.
RefRate == IF xArg.sampleRate = 0 THEN 25 ELSE xArg.sampleRate

\* C17: the vpch payload of n pitch samples is 9 + 2n bytes: version 1, the
\* sample rate as u32, n as u32, then n (midi, cents) pairs with midi held to
\* [0,127] and cents to [-50,50]; the reader's parser returns from it the
\* same sample rate and exactly the n clamped pairs, in order.
C17_VpchRoundTrip ==
  /\ lastOp \in {"vpchBinary", "parseVpchAtom"} =>
       /\ Len(out) = 9 + 2 * Len(xArg.data)
       /\ out[1] = 1
       /\ RdU32(out, 1) = RefRate
       /\ RdU32(out, 5) = Len(xArg.data)
       /\ \A i \in 1..Len(xArg.data) :
            /\ out[9 + 2 * i - 1] = RefHeld(0, 127, xArg.data[i].midi)
            /\ out[9 + 2 * i] = (RefHeld(-50, 50, xArg.data[i].cents) + 256) % 256
  /\ lastOp = "parseVpchAtom" =>
       /\ ~res.isNull
       /\ res.sampleRate = RefRate
       /\ Len(res.data) = Len(xArg.data)
       /\ \A i \in 1..Len(xArg.data) :
            res.data[i] = [midi |-> RefHeld(0, 127, xArg.data[i].midi),
                           cents |-> RefHeld(-50, 50, xArg.data[i].cents)]

C17_Witness ==
  /\ lastOp = "parseVpchAtom"
  /\ xArg.sampleRate = 44100
  /\ xArg.data = <<[midi |-> 128, cents |-> -51], [midi |-> 60, cents |-> 7]>>
  /\ out = <<1, 0, 0, 172, 68, 0, 0, 0, 2, 127, 206, 60, 7>>
  /\ res.data = <<[midi |-> 127, cents |-> -50], [midi |-> 60, cents |-> 7]>>

(***************************************************************************)
(* Properties of the atom parsers.  A window is walked strictly up to its  *)
(* first header that is not a plain size of 8 or more inside the window.   *)
(***************************************************************************)
RECURSIVE RefFault(_, _, _)
RefFault(buf, pos, end) ==
  IF pos + 8 > end THEN [kind |-> "none", pos |-> pos]
  ELSE IF RdU32(buf, pos) = 0 THEN [kind |-> "zero", pos |-> pos]
  ELSE IF RdU32(buf, pos) = 1 THEN [kind |-> "large", pos |-> pos]
  ELSE IF RdU32(buf, pos) < 8 THEN [kind |-> "invalid", pos |-> pos]
  ELSE IF pos + RdU32(buf, pos) > end THEN [kind |-> "truncated", pos |-> pos]
  ELSE RefFault(buf, pos + RdU32(buf, pos), end)

ParserRan == lastOp \in {"parseMP4Atoms", "parseAtoms"}

\* The end of the window the parser was given.
WindowEnd == IF xArg.top THEN Len(src) ELSE xArg.offset + xArg.maxLength

WindowFault == RefFault(src, xArg.offset, WindowEnd)

\* C19: parsing a window in which an atom's declared size extends past the
\* end of the window (the parent's content, or the file) fails with a
\* Truncated error: the parser does not return an atom list.
C19_OverrunFailsTruncated ==
  (ParserRan /\ WindowFault.kind = "truncated") => (threw /\ xErr = "Truncated")

\* C20: a size field of 1 is read as a 16-byte header whose size is in the 8
\* bytes after the type, a size field of 2..7 is rejected with InvalidSize,
\* and no parser returns an atom of a size below 8 or advances by fewer than
\* 8 bytes.
C20_SmallSizeFields ==
  /\ ParserRan =>
       /\ \A i \in 1..Len(res) : res[i].size >= 8
       /\ \A i \in 1..(Len(res) - 1) : res[i + 1].offset - res[i].offset >= 8
       /\ WindowFault.kind = "invalid" => (threw /\ xErr = "InvalidSize")
       /\ WindowFault.kind = "large" =>
            \E i \in 1..Len(res) :
              /\ res[i].offset = WindowFault.pos
              /\ res[i].dataOffset = WindowFault.pos + 16
              /\ res[i].size = RdU64(src, WindowFault.pos + 8)
  /\ lastOp = "dumpAtomTree" => \A n \in DumpNodes : n.atom.size >= 8

(***************************************************************************)
(* Properties of the decoding of a sample table.                           *)
(***************************************************************************)
TableRead == lastOp = "parseSampleTableFromTrak"

RefHasBox(kids, type) == RefOfType(kids, type) # <<>>

\* The messages that name a box missing from track i: a box is missing when
\* its parent is there and it is not among the parent's children.
RefMissingMessages(buf, i) ==
  (IF ~RefHasBox(RefTrakKids(buf, i), T_mdia) THEN {"No mdia atom found in trak"} ELSE {})
  \cup (IF RefHasBox(RefTrakKids(buf, i), T_mdia) /\ ~RefHasBox(RefMdiaKids(buf, i), T_minf)
        THEN {"No minf atom found in mdia"} ELSE {})
  \cup (IF RefHasBox(RefTrakKids(buf, i), T_mdia) /\ ~RefHasBox(RefMdiaKids(buf, i), T_mdhd)
        THEN {"No mdhd atom found in mdia"} ELSE {})
  \cup (IF RefHasBox(RefMdiaKids(buf, i), T_minf) /\ ~RefHasBox(RefMinfKids(buf, i), T_stbl)
        THEN {"No stbl atom found in minf"} ELSE {})
  \cup (IF RefHasBox(RefMinfKids(buf, i), T_stbl) /\ ~RefHasBox(RefStblKids(buf, i), T_stsz)
        THEN {"No stsz atom found"} ELSE {})
  \cup (IF RefHasBox(RefMinfKids(buf, i), T_stbl) /\ ~RefHasBox(RefStblKids(buf, i), T_stsc)
        THEN {"No stsc atom found"} ELSE {})
  \cup (IF RefHasBox(RefMinfKids(buf, i), T_stbl) /\ ~RefHasBox(RefStblKids(buf, i), T_stsd)
        THEN {"No stsd atom found"} ELSE {})
  \cup (IF RefHasBox(RefMinfKids(buf, i), T_stbl) /\ ~RefHasBox(RefStblKids(buf, i), T_stco)
           /\ ~RefHasBox(RefStblKids(buf, i), T_co64)
        THEN {"No stco or co64 atom found"} ELSE {})

RefEntriesUpTo(k) ==
  {e \in 1..Len(xArg.stscEntries) : xArg.stscEntries[e].firstChunk <= k}
RefRuling(k) ==
  {e \in RefEntriesUpTo(k) :
     \A d \in RefEntriesUpTo(k) :
       xArg.stscEntries[d].firstChunk <= xArg.stscEntries[e].firstChunk}

RECURSIVE RefSumCounts(_)
RefSumCounts(n) == IF n = 0 THEN 0 ELSE res[n].sampleCount + RefSumCounts(n - 1)

\* C22: for every stsc table and every chunk number k (1-based) up to the
\* number of chunk offsets, the samples-per-chunk used for chunk k is that of
\* the stsc entry with the largest first_chunk <= k, and the first sample of
\* chunk k is the sum of the samples-per-chunk of the chunks 1..k-1.
C22_StscRule ==
  (lastOp = "buildChunkSampleMap" /\ ~threw) =>
    /\ Len(res) = xArg.totalChunks
    /\ \A k \in 1..Len(res) :
         /\ res[k].chunkIndex = k - 1
         /\ res[k].sampleStart = RefSumCounts(k - 1)
         /\ RefEntriesUpTo(k) # {} =>
              \E e \in RefRuling(k) :
                res[k].sampleCount = xArg.stscEntries[e].samplesPerChunk

(***************************************************************************)
(* Properties of a write next to a 32-bit chunk offset close to 2^32 - 1.  *)
(***************************************************************************)
\* The stco of the only track, and its three entries as 16-bit halves.
BigStcoOf(buf) == RefOfType(RefAllKids(buf, RefStbls(buf)), T_stco)[1]
EntryHalves(buf, i) ==
  <<entryHi(buf, BigStcoOf(buf).offset + 16 + 4 * i),
    entryLo(buf, BigStcoOf(buf).offset + 16 + 4 * i)>>

\* The growth of the file in the last call, and whether it carries the
\* second entry of the file before the call past 2^32 - 1.
Growth == Len(file) - Len(prev)
PushedPast ==
  /\ lastOp # "none" /\ RefMoovs(prev) # <<>>
  /\ EntryHalves(prev, 1)[1] = 65535
  /\ EntryHalves(prev, 1)[2] + Growth >= 65536

\* C23: a write whose size delta would push a 32-bit stco entry past
\* 2^32 - 1 fails with an error surfaced to the caller and leaves the file
\* as it was: no stco table is left partly updated, no entry wraps.
C23_OverflowFails ==
  PushedPast => (threw /\ file = prev)

(***************************************************************************)
(* C24.  A vpch or kons payload whose version byte is not 1, or whose      *)
(* declared entry count differs from the number of whole entries present   *)
(* after the header, decodes to a failure (null) and to no pitch or onset  *)
(* data, never to a shortened list.                                        *)
(***************************************************************************)
PayloadParsed == lastOp \in {"parseVpchAtom", "parseKonsAtom"}

HeaderLen == IF xArg.atom = "vpch" THEN 9 ELSE 5
EntryLen == IF xArg.atom = "vpch" THEN 2 ELSE 4

DeclaredCount == RdU32(xArg.payload, HeaderLen - 4)
PresentCount == (Len(xArg.payload) - HeaderLen) \div EntryLen

Malformed ==
  \/ Len(xArg.payload) < HeaderLen
  \/ xArg.payload[1] # 1
  \/ DeclaredCount # PresentCount

C24_MalformedPayloadFails == (PayloadParsed /\ Malformed) => res.isNull

(***************************************************************************)
(* C25.  With two writers on one file, each read and each write one step:  *)
(* after any write the file is exactly what the injection that wrote last  *)
(* computed from the buffer it had read; and when that buffer was read     *)
(* before another write, the file is what the injection computes from the  *)
(* file as it was before that other write, whose change is thereby lost.   *)
(***************************************************************************)
WriteEvents == {i \in 1..Len(res) : res[i].event = "writeFile"}

LastWrite == CHOOSE i \in WriteEvents : \A j \in WriteEvents : j <= i

\* The read the write res[i] belongs to.
ReadOf(i) ==
  CHOOSE j \in 1..(i - 1) :
    /\ res[j].event = "readFile" /\ res[j].writer = res[i].writer
    /\ \A k \in (j + 1)..(i - 1) : res[k].writer # res[i].writer

\* The file on disk just before event i, from the writes before it.
DiskBefore(i) ==
  IF \E k \in WriteEvents : k < i
  THEN res[CHOOSE k \in WriteEvents : k < i /\ \A m \in WriteEvents : m < i => m <= k].content
  ELSE orig

\* The writes that completed between the last write's read and the last write.
Overtaken == {i \in WriteEvents : ReadOf(LastWrite) < i /\ i < LastWrite}

FirstOvertaken == CHOOSE i \in Overtaken : \A j \in Overtaken : i <= j

C25_LastWriterWins ==
  WriteEvents # {} =>
    /\ file = inject(res[LastWrite].injection, res[ReadOf(LastWrite)].content).buf
    /\ Overtaken # {} =>
         file = inject(res[LastWrite].injection, DiskBefore(FirstOvertaken)).buf

\* Both writers read, then both wrote, and the first write is lost: the file
\* differs from what the last injection would have made of the first output.
C25_Witness ==
  /\ Len(res) = 4
  /\ res[1].event = "readFile" /\ res[2].event = "readFile"
  /\ res[3].event = "writeFile" /\ res[4].event = "writeFile"
  /\ res[3].writer # res[4].writer
  /\ res[3].content # orig
  /\ file # inject(res[4].injection, res[3].content).buf

(***************************************************************************)
(* C26.  A writer called on a file without a top-level moov atom, and      *)
(* writeVpchAtom or writeKonsAtom called with invalid data, throws and     *)
(* writes nothing: the file is byte for byte what it was.                  *)
(*                                                                         *)
(* A call that threw or that had nothing to put leaves lastKeys empty, so  *)
(* a call of writeVpchAtom or writeKonsAtom with invalid data is among the *)
(* calls of these two with no key put, and a call that returned without    *)
(* an error and without a key put is one that had nothing to inject.       *)
(***************************************************************************)
NoMoovBefore == nWrites > 0 /\ RefMoovs(prev) = <<>>

NothingPut == nWrites > 0 /\ lastOp \in {"writeVpchAtom", "writeKonsAtom"} /\ lastKeys = {}

\* As stated: every writer fails on a file without moov.
C26_NoMoovOrInvalidFails == (NoMoovBefore \/ NothingPut) => (threw /\ file = prev)

\* addStandardMetadata without a field to write and addTrackNumber with an
\* unusable track number return before any injection.
NothingToInject ==
  lastOp \in {"addStandardMetadata", "addTrackNumber"} /\ lastKeys = {} /\ ~threw

\* Amended: the file is unchanged in every case, and the call throws unless
\* it had nothing to inject.
C26_NoMoovNeverWritten ==
  /\ NoMoovBefore => (file = prev /\ (threw \/ NothingToInject))
  /\ NothingPut => (threw /\ file = prev)

C26_Witness ==
  /\ NoMoovBefore /\ lastOp = "addNiStemsMetadata" /\ threw /\ file = prev
  /\ Len(file) > 0

(***************************************************************************)
(* C27.  A call of a writer changes bytes inside moov only: the bytes      *)
(* before moov are the same before and after the call, moov is where it    *)
(* was, the bytes that followed the old moov follow the new moov, and the  *)
(* file has grown by what moov has grown.                                  *)
(***************************************************************************)
MoovStart(buf) == RefMoovs(buf)[1].offset

C27_OnlyMoovChanges ==
  (nWrites > 0 /\ RefMoovs(prev) # <<>>) =>
    /\ RefMoovs(file) # <<>>
    /\ MoovStart(file) = MoovStart(prev)
    /\ Slice(file, 0, MoovStart(file)) = Slice(prev, 0, MoovStart(prev))
    /\ SliceFrom(file, MoovEnd(file)) = SliceFrom(prev, MoovEnd(prev))
    /\ Len(file) = Len(prev) + (MoovSize(file) - MoovSize(prev))

(***************************************************************************)
(* C28.  In a file that started with at most one udta in moov, one meta in *)
(* udta and one ilst in meta, there is still at most one of each after any *)
(* sequence of writes, also when the container is empty or the last child  *)
(* of its parent.                                                          *)
(***************************************************************************)
AtMostOneEach(buf) ==
  /\ Len(RefUdtas(buf)) <= 1
  /\ Len(RefMetas(buf)) <= 1
  /\ Len(RefIlsts(buf)) <= 1

C28_NoDuplicateContainers == AtMostOneEach(orig) => AtMostOneEach(file)

(***************************************************************************)
(* C29.  The lookups of a write through injectAtomToIlst (udta in moov,    *)
(* meta in udta, ilst in meta, the existing child in ilst) consider only   *)
(* atoms that lie inside the content of the parent they look in, also when *)
(* the parent is empty.  Each lookup is the parent's position, size and    *)
(* header length and the atoms the writer searched.                        *)
(***************************************************************************)
Lookup(pos, size, skip, atoms) == [pos |-> pos, size |-> size, skip |-> skip, atoms |-> atoms]

IlstLookups(m, ilstAtom) ==
  IF ilstAtom = NoAtom THEN {}
  ELSE {Lookup(ilstAtom.offset, ilstAtom.size, 8,
               parseMP4Atoms(m.buf, ilstAtom.offset + 8, ilstAtom.size - 8))}

MetaLookups(m) ==
  {Lookup(m.pos, m.size, 12, parseMP4Atoms(m.buf, m.pos + 12, m.size - 12))}
  \cup IlstLookups(m, FindType(parseMP4Atoms(m.buf, m.pos + 12, m.size - 12), T_ilst))

UdtaLookups(u, moovAtom) ==
  {Lookup(u.pos, u.size, 8, parseMP4Atoms(u.buf, u.pos + 8, u.size - 8))}
  \cup MetaLookups(ensureMeta(u, moovAtom))

MoovLookups(buf, moovAtom) ==
  {Lookup(moovAtom.offset, moovAtom.size, 8,
          parseMP4Atoms(buf, moovAtom.dataOffset, moovAtom.size - 8))}
  \cup UdtaLookups(ensureUdta(buf, moovAtom), moovAtom)

Lookups(buf) == MoovLookups(buf, FindType(parseMP4Atoms(buf, 0, Null), T_moov))

InsideParent(l) ==
  \A i \in 1..Len(l.atoms) :
    /\ l.atoms[i].offset >= l.pos + l.skip
    /\ l.atoms[i].offset + l.atoms[i].size <= l.pos + l.size

IlstWriters ==
  {"writeVpchAtom", "writeKonsAtom", "addMusicalKey", "addStandardMetadata", "addTrackNumber"}

C29_LookupsInsideParent ==
  (nWrites > 0 /\ lastOp \in IlstWriters /\ Cardinality(lastKeys) = 1) =>
    \A l \in Lookups(prev) : InsideParent(l)

(***************************************************************************)
(* C30.  The atom parsers terminate on every byte sequence: each iteration *)
(* of parseMP4Atoms, of parseAtoms and of dumpAtomTree's parse stops or    *)
(* moves on by at least one byte, so the atoms of one list lie at strictly *)
(* increasing offsets, and each recursive call of dumpAtomTree's parse is  *)
(* on a byte range strictly shorter than the range of the call that made   *)
(* it.                                                                     *)
(***************************************************************************)
Advancing(atoms) ==
  \A i \in 1..Len(atoms) :
    /\ atoms[i].size >= 1
    /\ i < Len(atoms) => atoms[i + 1].offset >= atoms[i].offset + 1

\* The byte range of the recursive call made for a node with children.
CallFrom(n) == n.atom.offset + (IF n.atom.type = T_meta THEN 12 ELSE 8)
CallTo(n) == n.atom.offset + n.atom.size

C30_ParsersTerminate ==
  /\ lastOp \in {"parseMP4Atoms", "parseAtoms"} => Advancing(res)
  /\ lastOp = "dumpAtomTree" =>
       /\ Advancing(res)
       /\ \A n \in DumpNodes :
            "children" \in DOMAIN n.atom =>
              /\ Advancing(n.atom.children)
              /\ CallTo(n) - CallFrom(n) < n.to - n.from

====
